---------------------------- MODULE Spec2Model ----------------------------
(***************************************************************************)
(* A model of the Witnessd TSF text service (cmd/witnessd-tsf/tsf): the    *)
(* complete service of tsf_text_service.cpp and the basic service of       *)
(* witnessd_tsf.cpp, the named-pipe client of tsf_text_service.cpp and the *)
(* exported calls both services make into the daemon (the Go engine).      *)
(*                                                                         *)
(* The service object is the record svc, whose fields are the members of   *)
(* class WitnessdTextService; every handler is an operator from the        *)
(* object, the daemon and the handler's inputs to the object, the daemon   *)
(* and the calls made, written in the order of the handler's statements.   *)
(*                                                                         *)
(* These specifications share the handlers:                                *)
(*   Spec          any sequence of host callbacks, one at a time;          *)
(*   SpecCodec     one keystroke encoded by WritePipe and read back;       *)
(*   SpecScenario  activate, focus, printable key, Backspace, deactivate;  *)
(*   SpecConc      OnKeyDown and OnSetFocus interleaved on three threads;  *)
(*   SpecStall     ActivateEx and Deactivate waiting for the daemon;       *)
(*   SpecRace      ActivateEx and Deactivate interleaved on two threads;   *)
(*   SpecPipeRace  WritePipe interleaved on two threads;                   *)
(*   SpecOrder     a bounded run of key callbacks and what the pipe got;   *)
(*   SpecFocus     focus callbacks with the window each of them saw;       *)
(*   SpecDll       the class factory, the objects it makes and the locks;  *)
(*   SpecStream    key callbacks and the bytes each connection carried;    *)
(*   SpecPair      the two builds given the same callbacks side by side.   *)
(***************************************************************************)
EXTENDS Integers, Sequences, FiniteSets, TLC

----------------------------------------------------------------------------
(* Values *)

\* The two builds of the text service DLL.
Complete == "tsf_text_service.cpp"
Basic    == "witnessd_tsf.cpp"
Builds   == {Complete, Basic}

\* HWND values GetForegroundWindow can return; NullWindow is nullptr.
NullWindow == "nullptr"
Windows    == {"H1", "H2"}
Hwnds      == Windows \cup {NullWindow}

\* std::wstring values are tagged "L"; std::string values are plain.
EmptyW == <<"L", "">>
Wide(s) == <<"L", s>>

\* What the host reports for a window when its queries succeed.
TitleOf(h) == IF h = "H1" THEN Wide("doc1") ELSE Wide("doc2")
PathOf(h)  == IF h = "H1" THEN Wide("app.x") ELSE Wide("app.y")

\* ITfDocumentMgr objects the host can pass to OnSetFocus; 0 is nullptr.
DocMgrs == {0, 1}

VK_BACK       == 8
PrintableLow  == 32
PrintableHigh == 126
FrameBytes    == 17

\* Bound of the model: the references on the thread manager a run may take.
MaxRefs == 2

----------------------------------------------------------------------------
(* The daemon: the exported Go calls of tsf_text_service.h, lines 44-59.   *)
(* Its code is not part of the sources; it is modelled from the spec: a    *)
(* session is active from a StartSession that succeeded to the next        *)
(* EndSession, whatever EndSession replies.                                *)

Call(fn, s1, s2, n1, n2, ok) ==
    [fn |-> fn, s1 |-> s1, s2 |-> s2, n1 |-> n1, n2 |-> n2, ok |-> ok]

DaemonInit == [active |-> FALSE]

WitnessdHasActiveSession(d) == d.active

WitnessdStartSession(d, appId, docId, ok) ==
    [daemon |-> IF ok THEN [d EXCEPT !.active = TRUE] ELSE d,
     call   |-> Call("WitnessdStartSession", appId, docId, 0, 0, ok)]

\* ok: an evidence string came back (nullptr otherwise).
WitnessdEndSession(d, ok) ==
    [daemon |-> [d EXCEPT !.active = FALSE],
     call   |-> Call("WitnessdEndSession", "", "", 0, 0, ok /\ d.active)]

WitnessdOnFocusChange(d, appName, docTitle) ==
    [daemon |-> d,
     call   |-> Call("WitnessdOnFocusChange", appName, docTitle, 0, 0, TRUE)]

WitnessdOnKeyDown(vkCode, charCode) ==
    Call("WitnessdOnKeyDown", "", "", vkCode, charCode, TRUE)

WitnessdOnTextCommit(charCode) ==
    Call("WitnessdOnTextCommit", "", "", charCode, 0, TRUE)

WitnessdOnTextDelete(count) ==
    Call("WitnessdOnTextDelete", "", "", count, 0, TRUE)

----------------------------------------------------------------------------
(* The keystroke frame and the named-pipe client (tsf_text_service.cpp,    *)
(* "IPC Client (Named Pipe)").                                             *)

RECURSIVE Shr8(_, _)
\* n >> (8 * k), arithmetic: the sign is kept.
Shr8(n, k) == IF k = 0 THEN n ELSE Shr8(n, k - 1) \div 256

\* The bytes of an integer stored in `width` bytes on the little-endian
\* machine the DLL is built for (two's complement for a negative one).
LittleEndian(n, width) == [k \in 1..width |-> Shr8(n, k - 1) % 256]

\* (uint16_t)x and (uint32_t)x, for x >= 0.
U16(x) == x % 65536
U32(x) == (x % 65536) + 65536 * ((x \div 65536) % 65536)

\* The msg struct without #pragma pack: sizeof rounds up to the alignment
\* of int64_t, which pads the struct after isDown.
EncodeKeystrokeUnpacked(ev) ==
    LittleEndian(ev.timestamp, 8) \o LittleEndian(ev.vkCode, 2)
    \o LittleEndian(ev.scanCode, 2) \o LittleEndian(ev.flags, 4)
    \o <<IF ev.isDown THEN 1 ELSE 0>> \o <<0, 0, 0, 0, 0, 0, 0>>

\* The msg struct of WritePipe under #pragma pack(push, 1), as the bytes
\* WriteFile is handed: no padding between the members.
EncodeKeystroke(ev) ==
    LittleEndian(ev.timestamp, 8) \o LittleEndian(ev.vkCode, 2)
    \o LittleEndian(ev.scanCode, 2) \o LittleEndian(ev.flags, 4)
    \o <<IF ev.isDown THEN 1 ELSE 0>>

RECURSIVE FromLittleEndian(_, _)
\* The unsigned value of bytes b[1..n], least significant first.
FromLittleEndian(b, n) ==
    IF n = 0 THEN 0 ELSE FromLittleEndian(SubSeq(b, 2, n), n - 1) * 256 + b[1]

RECURSIVE SignedFromLittleEndian(_, _)
\* The two's complement value of bytes b[1..n].
SignedFromLittleEndian(b, n) ==
    IF n = 1 THEN (IF b[1] >= 128 THEN b[1] - 256 ELSE b[1])
    ELSE SignedFromLittleEndian(SubSeq(b, 2, n), n - 1) * 256 + b[1]

\* The daemon's reading of a frame, by the layout of the spec:
\* timestampNanos:i64 | virtualKeyCode:u16 | scanCode:u16 | flags:u32 |
\* isKeyDown:u8.
DecodeKeystroke(b) ==
    [timestamp |-> SignedFromLittleEndian(SubSeq(b, 1, 8), 8),
     vkCode    |-> FromLittleEndian(SubSeq(b, 9, 10), 2),
     scanCode  |-> FromLittleEndian(SubSeq(b, 11, 12), 2),
     flags     |-> FromLittleEndian(SubSeq(b, 13, 16), 4),
     isDown    |-> b[17] # 0]

\* g_hPipe: TRUE for an open handle, FALSE for INVALID_HANDLE_VALUE.
PipeOp(op, ok, frame) == [op |-> op, ok |-> ok, frame |-> frame]

\* ConnectPipe; created: CreateFileW returned a handle.
ConnectPipe(hPipe, created) ==
    IF hPipe THEN [hPipe |-> hPipe, ops |-> <<>>]
    ELSE [hPipe |-> created, ops |-> <<PipeOp("CreateFileW", created, <<>>)>>]

\* DisconnectPipe
DisconnectPipe(hPipe) ==
    IF hPipe THEN [hPipe |-> FALSE, ops |-> <<PipeOp("CloseHandle", TRUE, <<>>)>>]
    ELSE [hPipe |-> hPipe, ops |-> <<>>]

\* WritePipe without the DisconnectPipe that follows a failed WriteFile.
WritePipeKeepsHandle(hPipe, ev, io) ==
    LET c == IF ~hPipe THEN ConnectPipe(hPipe, io.created)
             ELSE [hPipe |-> hPipe, ops |-> <<>>]
    IN IF ~c.hPipe THEN c
       ELSE [hPipe |-> c.hPipe,
             ops |-> c.ops \o <<PipeOp("WriteFile", io.written, EncodeKeystroke(ev))>>]

\* WritePipe without the return that follows a failed ConnectPipe.
WritePipeUnconnected(hPipe, ev, io) ==
    LET c == IF ~hPipe THEN ConnectPipe(hPipe, io.created)
             ELSE [hPipe |-> hPipe, ops |-> <<>>]
        w == PipeOp("WriteFile", c.hPipe /\ io.written, EncodeKeystroke(ev))
        x == IF ~w.ok THEN DisconnectPipe(c.hPipe)
             ELSE [hPipe |-> c.hPipe, ops |-> <<>>]
    IN [hPipe |-> x.hPipe, ops |-> c.ops \o <<w>> \o x.ops]

\* WritePipe calling ConnectPipe a second time when the first call failed.
WritePipeRetries(hPipe, ev, io) ==
    LET c1 == IF ~hPipe THEN ConnectPipe(hPipe, io.created)
              ELSE [hPipe |-> hPipe, ops |-> <<>>]
        c2 == IF ~c1.hPipe THEN ConnectPipe(c1.hPipe, io.created)
              ELSE [hPipe |-> c1.hPipe, ops |-> <<>>]
        c  == [hPipe |-> c2.hPipe, ops |-> c1.ops \o c2.ops]
    IN IF ~c.hPipe THEN c
       ELSE LET w == PipeOp("WriteFile", io.written, EncodeKeystroke(ev))
                x == IF ~io.written THEN DisconnectPipe(c.hPipe)
                     ELSE [hPipe |-> c.hPipe, ops |-> <<>>]
            IN [hPipe |-> x.hPipe, ops |-> c.ops \o <<w>> \o x.ops]

\* WritePipe opening the pipe anew on every call, open or not.
WritePipeReconnects(hPipe, ev, io) ==
    LET c == ConnectPipe(FALSE, io.created)
    IN IF ~c.hPipe THEN c
       ELSE LET w == PipeOp("WriteFile", io.written, EncodeKeystroke(ev))
                x == IF ~io.written THEN DisconnectPipe(c.hPipe)
                     ELSE [hPipe |-> c.hPipe, ops |-> <<>>]
            IN [hPipe |-> x.hPipe, ops |-> c.ops \o <<w>> \o x.ops]

\* WritePipe opening the pipe again after a failed write and writing the
\* frame once more.
WritePipeResends(hPipe, ev, io) ==
    LET c == IF ~hPipe THEN ConnectPipe(hPipe, io.created)
             ELSE [hPipe |-> hPipe, ops |-> <<>>]
    IN IF ~c.hPipe THEN c
       ELSE LET w == PipeOp("WriteFile", io.written, EncodeKeystroke(ev))
                x == IF ~io.written THEN DisconnectPipe(c.hPipe)
                     ELSE [hPipe |-> c.hPipe, ops |-> <<>>]
                again == IF ~io.written
                         THEN ConnectPipe(FALSE, TRUE).ops
                              \o <<PipeOp("WriteFile", TRUE, EncodeKeystroke(ev))>>
                         ELSE <<>>
            IN [hPipe |-> IF ~io.written THEN TRUE ELSE x.hPipe,
                ops |-> c.ops \o <<w>> \o x.ops \o again]

\* WritePipe; io.created and io.written are the results of CreateFileW and
\* WriteFile, should the call come to them.
WritePipe(hPipe, ev, io) ==
    LET c == IF ~hPipe THEN ConnectPipe(hPipe, io.created)
             ELSE [hPipe |-> hPipe, ops |-> <<>>]
    IN IF ~c.hPipe THEN c
       ELSE LET w == PipeOp("WriteFile", io.written, EncodeKeystroke(ev))
                x == IF ~io.written THEN DisconnectPipe(c.hPipe)
                     ELSE [hPipe |-> c.hPipe, ops |-> <<>>]
            IN [hPipe |-> x.hPipe, ops |-> c.ops \o <<w>> \o x.ops]

\* What the pipe answers during one WritePipe: whether CreateFileW would open
\* it and whether WriteFile would succeed (which is never asked when the pipe
\* cannot be opened).
PipeResults ==
    {[created |-> TRUE, written |-> TRUE], [created |-> TRUE, written |-> FALSE],
     [created |-> FALSE, written |-> FALSE]}

----------------------------------------------------------------------------
(* The service object *)

S_OK   == "S_OK"
E_FAIL == "E_FAIL"

\* WitnessdTextService::WitnessdTextService
ServiceInit ==
    [threadMgr_ |-> FALSE, clientId_ |-> 0, keystrokeMgr_ |-> FALSE,
     threadMgrEventSinkCookie_ |-> FALSE, textEditSinkCookie_ |-> FALSE,
     currentDocMgr_ |-> 0, currentContext_ |-> FALSE,
     isActivated_ |-> FALSE, isEnabled_ |-> TRUE,
     currentAppPath_ |-> EmptyW, currentWindowTitle_ |-> EmptyW,
     currentFocusWindow_ |-> NullWindow,
     tmRefs |-> 0]

\* WideToUTF8: the empty string for an empty wide string, else the
\* converted text.
WideToUTF8(wide) == IF wide = EmptyW THEN "" ELSE wide[2]

\* UpdateFocusInfo storing the handle only once the title and the path of
\* the window were both read.
UpdateFocusInfoOnSuccess(s, in) ==
    IF in.hwnd = s.currentFocusWindow_ THEN s
    ELSE IF in.hwnd = NullWindow
         THEN [s EXCEPT !.currentFocusWindow_ = NullWindow,
                        !.currentAppPath_ = EmptyW,
                        !.currentWindowTitle_ = EmptyW]
         ELSE [s EXCEPT !.currentFocusWindow_ =
                            IF in.titleOk /\ in.pathOk THEN in.hwnd ELSE @,
                        !.currentWindowTitle_ =
                            IF in.titleOk THEN TitleOf(in.hwnd) ELSE EmptyW,
                        !.currentAppPath_ =
                            IF in.pathOk THEN PathOf(in.hwnd) ELSE @]

\* UpdateFocusInfo. in.hwnd is GetForegroundWindow's result, in.titleOk
\* whether GetWindowTextW filled the title, in.pathOk whether OpenProcess
\* and QueryFullProcessImageNameW both succeeded.
UpdateFocusInfo(s, in) ==
    IF in.hwnd = s.currentFocusWindow_ THEN s
    ELSE IF in.hwnd = NullWindow
         THEN [s EXCEPT !.currentFocusWindow_ = NullWindow,
                        !.currentAppPath_ = EmptyW,
                        !.currentWindowTitle_ = EmptyW]
         ELSE [s EXCEPT !.currentFocusWindow_ = in.hwnd,
                        !.currentWindowTitle_ =
                            IF in.titleOk THEN TitleOf(in.hwnd) ELSE EmptyW,
                        !.currentAppPath_ =
                            IF in.pathOk THEN PathOf(in.hwnd) ELSE @]

FocusInputs ==
    {[hwnd |-> NullWindow, titleOk |-> FALSE, pathOk |-> FALSE]}
    \cup [hwnd : Windows, titleOk : BOOLEAN, pathOk : BOOLEAN]

\* CleanupTextEditSink(currentContext_)
CleanupTextEditSink(s) ==
    IF s.currentContext_ /\ s.textEditSinkCookie_
    THEN [s EXCEPT !.textEditSinkCookie_ = FALSE] ELSE s

\* CleanupKeystrokeSink
CleanupKeystrokeSink(s) == [s EXCEPT !.keystrokeMgr_ = FALSE]

\* CleanupThreadMgrEventSink
CleanupThreadMgrEventSink(s) ==
    IF s.threadMgr_ /\ s.threadMgrEventSinkCookie_
    THEN [s EXCEPT !.threadMgrEventSinkCookie_ = FALSE] ELSE s

\* The release of currentContext_ and currentDocMgr_ shared by CleanupSinks
\* and OnSetFocus(ITfDocumentMgr*, ITfDocumentMgr*).
ReleaseContext(s) ==
    LET s1 == IF s.currentContext_
              THEN [CleanupTextEditSink(s) EXCEPT !.currentContext_ = FALSE]
              ELSE s
    IN [s1 EXCEPT !.currentDocMgr_ = 0]

\* CleanupSinks
CleanupSinks(s) ==
    ReleaseContext(CleanupThreadMgrEventSink(CleanupKeystrokeSink(s)))

\* SetupKeystrokeSink; res is "ok", or the step that failed.
SetupKeystrokeSink(s, res) ==
    IF ~s.threadMgr_ THEN [svc |-> s, hr |-> E_FAIL]
    ELSE IF res = "ok" THEN [svc |-> [s EXCEPT !.keystrokeMgr_ = TRUE], hr |-> S_OK]
    ELSE [svc |-> [s EXCEPT !.keystrokeMgr_ = FALSE], hr |-> E_FAIL]

\* SetupThreadMgrEventSink
SetupThreadMgrEventSink(s, res) ==
    IF ~s.threadMgr_ THEN [svc |-> s, hr |-> E_FAIL]
    ELSE IF res = "ok"
         THEN [svc |-> [s EXCEPT !.threadMgrEventSinkCookie_ = TRUE], hr |-> S_OK]
         ELSE [svc |-> s, hr |-> E_FAIL]

\* "failed": QueryInterface or the Advise call failed.
SinkResults == {"ok", "failed"}

\* SetupSinks
SetupSinks(s, keyRes, tmRes) ==
    LET k == SetupKeystrokeSink(s, keyRes)
        t == SetupThreadMgrEventSink(k.svc, tmRes)
    IN IF k.hr # S_OK THEN k
       ELSE IF t.hr # S_OK THEN [svc |-> CleanupKeystrokeSink(t.svc), hr |-> t.hr]
       ELSE t

\* Deactivate without its WitnessdEndSession call.
DeactivateKeepsSession(s, d, endOk) ==
    IF ~s.isActivated_ THEN [svc |-> s, daemon |-> d, calls |-> <<>>, hr |-> S_OK]
    ELSE LET s1 == CleanupSinks(s)
             s2 == IF s1.threadMgr_
                   THEN [s1 EXCEPT !.threadMgr_ = FALSE, !.tmRefs = @ - 1]
                   ELSE s1
         IN [svc |-> [s2 EXCEPT !.clientId_ = 0, !.isActivated_ = FALSE],
             daemon |-> d, calls |-> <<>>, hr |-> S_OK]

\* Deactivate giving up when WitnessdEndSession returns no evidence.
DeactivateStuck(s, d, endOk) ==
    IF ~s.isActivated_ THEN [svc |-> s, daemon |-> d, calls |-> <<>>, hr |-> S_OK]
    ELSE LET e  == WitnessdEndSession(d, endOk)
             d1 == IF WitnessdHasActiveSession(d) THEN e.daemon ELSE d
             c1 == IF WitnessdHasActiveSession(d) THEN <<e.call>> ELSE <<>>
             s1 == CleanupSinks(s)
             s2 == IF s1.threadMgr_
                   THEN [s1 EXCEPT !.threadMgr_ = FALSE, !.tmRefs = @ - 1]
                   ELSE s1
         IN IF WitnessdHasActiveSession(d) /\ ~e.call.ok
            THEN [svc |-> s, daemon |-> d1, calls |-> c1, hr |-> E_FAIL]
            ELSE [svc |-> [s2 EXCEPT !.clientId_ = 0, !.isActivated_ = FALSE],
                  daemon |-> d1, calls |-> c1, hr |-> S_OK]

\* WitnessdTextService::Deactivate of tsf_text_service.cpp
Deactivate(s, d, endOk) ==
    IF ~s.isActivated_ THEN [svc |-> s, daemon |-> d, calls |-> <<>>, hr |-> S_OK]
    ELSE LET e  == WitnessdEndSession(d, endOk)
             d1 == IF WitnessdHasActiveSession(d) THEN e.daemon ELSE d
             c1 == IF WitnessdHasActiveSession(d) THEN <<e.call>> ELSE <<>>
             s1 == CleanupSinks(s)
             s2 == IF s1.threadMgr_
                   THEN [s1 EXCEPT !.threadMgr_ = FALSE, !.tmRefs = @ - 1]
                   ELSE s1
         IN [svc |-> [s2 EXCEPT !.clientId_ = 0, !.isActivated_ = FALSE],
             daemon |-> d1, calls |-> c1, hr |-> S_OK]

\* The results ActivateEx can meet: a sink that fails (nothing after it is
\* asked), or both sinks, the focus queries and StartSession's reply.
ActivateInputs ==
    LET f0 == [hwnd |-> NullWindow, titleOk |-> FALSE, pathOk |-> FALSE]
    IN {[keyRes |-> "failed", tmRes |-> "ok", focus |-> f0, startOk |-> FALSE],
        [keyRes |-> "ok", tmRes |-> "failed", focus |-> f0, startOk |-> FALSE]}
       \cup [keyRes : {"ok"}, tmRes : {"ok"}, focus : FocusInputs, startOk : BOOLEAN]

\* ActivateEx past its isActivated_ test, giving up when WitnessdStartSession
\* fails.
ActivateSessionChecked(s, d, in) ==
    LET s1 == [s EXCEPT !.threadMgr_ = TRUE, !.tmRefs = @ + 1, !.clientId_ = 1]
        su == SetupSinks(s1, in.keyRes, in.tmRes)
    IN IF su.hr # S_OK
       THEN [Deactivate(su.svc, d, TRUE) EXCEPT !.hr = su.hr]
       ELSE LET s2    == UpdateFocusInfo(su.svc, in.focus)
                app   == WideToUTF8(s2.currentAppPath_)
                doc   == WideToUTF8(s2.currentWindowTitle_)
                appId == IF app = "" THEN "windows.tsf" ELSE app
                docId == IF doc = "" THEN "default" ELSE doc
                st    == WitnessdStartSession(d, appId, docId, in.startOk)
            IN IF in.startOk
               THEN [svc |-> [s2 EXCEPT !.isActivated_ = TRUE],
                     daemon |-> st.daemon, calls |-> <<st.call>>, hr |-> S_OK]
               ELSE [svc |-> s2, daemon |-> st.daemon, calls |-> <<st.call>>,
                     hr |-> E_FAIL]

\* ActivateEx of tsf_text_service.cpp past its isActivated_ test.
ActivateSession(s, d, in) ==
    LET s1 == [s EXCEPT !.threadMgr_ = TRUE, !.tmRefs = @ + 1, !.clientId_ = 1]
        su == SetupSinks(s1, in.keyRes, in.tmRes)
    IN IF su.hr # S_OK
       THEN [Deactivate(su.svc, d, TRUE) EXCEPT !.hr = su.hr]
       ELSE LET s2    == UpdateFocusInfo(su.svc, in.focus)
                app   == WideToUTF8(s2.currentAppPath_)
                doc   == WideToUTF8(s2.currentWindowTitle_)
                appId == IF app = "" THEN "windows.tsf" ELSE app
                docId == IF doc = "" THEN "default" ELSE doc
                st    == WitnessdStartSession(d, appId, docId, in.startOk)
            IN [svc |-> [s2 EXCEPT !.isActivated_ = TRUE],
                daemon |-> st.daemon, calls |-> <<st.call>>, hr |-> S_OK]

\* ActivateEx without its isActivated_ test.
ActivateExAgain(s, d, in) == ActivateSession(s, d, in)

\* ActivateEx taking its thread-manager reference before its isActivated_
\* test.
ActivateExRefFirst(s, d, in) ==
    IF s.isActivated_
    THEN [svc |-> [s EXCEPT !.tmRefs = @ + 1], daemon |-> d, calls |-> <<>>,
          hr |-> S_OK]
    ELSE ActivateSession(s, d, in)

\* WitnessdTextService::ActivateEx of tsf_text_service.cpp
ActivateEx(s, d, in) ==
    IF s.isActivated_ THEN [svc |-> s, daemon |-> d, calls |-> <<>>, hr |-> S_OK]
    ELSE ActivateSession(s, d, in)

\* Deactivate of witnessd_tsf.cpp without its isActivated_ test.
BasicDeactivateAlways(s, d, endOk) ==
    LET e  == WitnessdEndSession(d, endOk)
        s1 == CleanupKeystrokeSink(s)
        s2 == IF s1.threadMgr_
              THEN [s1 EXCEPT !.threadMgr_ = FALSE, !.tmRefs = @ - 1]
              ELSE s1
    IN [svc |-> [s2 EXCEPT !.clientId_ = 0, !.isActivated_ = FALSE],
        daemon |-> e.daemon, calls |-> <<e.call>>, hr |-> S_OK]

\* WitnessdTextService::Deactivate of witnessd_tsf.cpp
BasicDeactivate(s, d, endOk) ==
    IF ~s.isActivated_ THEN [svc |-> s, daemon |-> d, calls |-> <<>>, hr |-> S_OK]
    ELSE LET e  == WitnessdEndSession(d, endOk)
             s1 == CleanupKeystrokeSink(s)
             s2 == IF s1.threadMgr_
                   THEN [s1 EXCEPT !.threadMgr_ = FALSE, !.tmRefs = @ - 1]
                   ELSE s1
         IN [svc |-> [s2 EXCEPT !.clientId_ = 0, !.isActivated_ = FALSE],
             daemon |-> e.daemon, calls |-> <<e.call>>, hr |-> S_OK]

\* WitnessdTextService::SetupKeySinks of witnessd_tsf.cpp
SetupKeySinks(s, res) ==
    IF res = "ok" THEN [svc |-> [s EXCEPT !.keystrokeMgr_ = TRUE], hr |-> S_OK]
    ELSE [svc |-> [s EXCEPT !.keystrokeMgr_ = FALSE], hr |-> E_FAIL]

\* WitnessdTextService::ActivateEx of witnessd_tsf.cpp
BasicActivateEx(s, d, in) ==
    IF s.isActivated_ THEN [svc |-> s, daemon |-> d, calls |-> <<>>, hr |-> S_OK]
    ELSE LET s1 == [s EXCEPT !.threadMgr_ = TRUE, !.tmRefs = @ + 1, !.clientId_ = 1]
             su == SetupKeySinks(s1, in.keyRes)
         IN IF su.hr # S_OK
            THEN [BasicDeactivate(su.svc, d, TRUE) EXCEPT !.hr = su.hr]
            ELSE LET st == WitnessdStartSession(d, "windows.tsf", "default", in.startOk)
                 IN [svc |-> [su.svc EXCEPT !.isActivated_ = TRUE],
                     daemon |-> st.daemon, calls |-> <<st.call>>, hr |-> S_OK]

\* A key event as the host delivers it: WPARAM and LPARAM.
KeyA     == [wParam |-> 65, lParam |-> 1966081]    \* 'A', scan code 0x1E
KeyBack  == [wParam |-> VK_BACK, lParam |-> 917505] \* Backspace, scan code 0x0E
Keys     == {KeyA, KeyBack}

\* What the host's layout API answers inside VKToChar: whether
\* GetKeyboardState succeeded, ToUnicode's result and buffer[0].
Translation(kbOk, n, c) == [kbOk |-> kbOk, n |-> n, c |-> c]
Translations ==
    {Translation(FALSE, 0, 0), Translation(TRUE, 0, 0),
     Translation(TRUE, 2, 97), Translation(TRUE, 1, 97),
     Translation(TRUE, 1, 8),  Translation(TRUE, 1, 31),
     Translation(TRUE, 1, 32), Translation(TRUE, 1, 126),
     Translation(TRUE, 1, 127)}

\* GetTimestampNanos results.
Timestamps == {1234567890}

\* VKToChar (the same in both builds)
VKToChar(tr) == IF ~tr.kbOk THEN 0 ELSE IF tr.n = 1 THEN tr.c ELSE 0

KeyInputs == [key : Keys, tr : Translations, ts : Timestamps, io : PipeResults]

\* OnKeyUp never asks for a translation.
KeyUpInputs == [key : Keys, ts : Timestamps, io : PipeResults]

\* The keystroke WritePipe is handed by OnKeyDown and OnKeyUp.
Keystroke(in, isDown) ==
    [timestamp |-> in.ts, vkCode |-> U16(in.key.wParam),
     scanCode |-> U16((in.key.lParam \div 65536) % 256),
     flags |-> U32(in.key.lParam), isDown |-> isDown]

\* The text calls with the delete decided by the character, not the key.
TextCallsByChar(wParam, charCode) ==
    (IF charCode >= PrintableLow /\ charCode <= PrintableHigh
     THEN <<WitnessdOnTextCommit(charCode)>> ELSE <<>>)
    \o (IF charCode = VK_BACK THEN <<WitnessdOnTextDelete(1)>> ELSE <<>>)

\* The text calls with the space character left out of the printable range.
TextCallsAboveSpace(wParam, charCode) ==
    (IF charCode > PrintableLow /\ charCode <= PrintableHigh
     THEN <<WitnessdOnTextCommit(charCode)>> ELSE <<>>)
    \o (IF wParam = VK_BACK THEN <<WitnessdOnTextDelete(1)>> ELSE <<>>)

\* The text calls of OnKeyDown for a key and its character.
TextCalls(wParam, charCode) ==
    (IF charCode >= PrintableLow /\ charCode <= PrintableHigh
     THEN <<WitnessdOnTextCommit(charCode)>> ELSE <<>>)
    \o (IF wParam = VK_BACK THEN <<WitnessdOnTextDelete(1)>> ELSE <<>>)

NoPipe(hPipe) == [hPipe |-> hPipe, ops |-> <<>>]

\* OnTestKeyDown claiming the key for itself.
OnTestKeyDownEaten(s, d, hPipe) ==
    [svc |-> s, daemon |-> d, calls |-> <<>>, hr |-> S_OK,
     pipe |-> NoPipe(hPipe), eaten |-> TRUE]

\* WitnessdTextService::OnTestKeyDown (the same in both builds): the key is
\* never eaten.
OnTestKeyDown(s, d, hPipe) ==
    [svc |-> s, daemon |-> d, calls |-> <<>>, hr |-> S_OK,
     pipe |-> NoPipe(hPipe), eaten |-> FALSE]

\* WitnessdTextService::OnTestKeyUp (the same in both builds)
OnTestKeyUp(s, d, hPipe) ==
    [svc |-> s, daemon |-> d, calls |-> <<>>, hr |-> S_OK,
     pipe |-> NoPipe(hPipe), eaten |-> FALSE]

\* WitnessdTextService::OnPreservedKey (the same in both builds)
OnPreservedKey(s, d, hPipe) ==
    [svc |-> s, daemon |-> d, calls |-> <<>>, hr |-> S_OK,
     pipe |-> NoPipe(hPipe), eaten |-> FALSE]

\* OnKeyDown returning E_FAIL when WritePipe left the pipe closed.
OnKeyDownReportsDrop(s, d, hPipe, in) ==
    IF ~s.isEnabled_
    THEN [svc |-> s, daemon |-> d, calls |-> <<>>, hr |-> S_OK,
          pipe |-> NoPipe(hPipe), eaten |-> FALSE]
    ELSE LET charCode == VKToChar(in.tr)
             w        == WritePipe(hPipe, Keystroke(in, TRUE), in.io)
         IN [svc |-> s, daemon |-> d, eaten |-> FALSE, pipe |-> w,
             hr |-> IF w.hPipe THEN S_OK ELSE E_FAIL,
             calls |-> <<WitnessdOnKeyDown(U16(in.key.wParam), charCode)>>
                       \o TextCalls(in.key.wParam, charCode)]

\* WitnessdTextService::OnKeyDown of tsf_text_service.cpp
OnKeyDown(s, d, hPipe, in) ==
    IF ~s.isEnabled_
    THEN [svc |-> s, daemon |-> d, calls |-> <<>>, hr |-> S_OK,
          pipe |-> NoPipe(hPipe), eaten |-> FALSE]
    ELSE LET charCode == VKToChar(in.tr)
         IN [svc |-> s, daemon |-> d, hr |-> S_OK, eaten |-> FALSE,
             pipe |-> WritePipe(hPipe, Keystroke(in, TRUE), in.io),
             calls |-> <<WitnessdOnKeyDown(U16(in.key.wParam), charCode)>>
                       \o TextCalls(in.key.wParam, charCode)]

\* OnKeyUp without its isEnabled_ test.
OnKeyUpWhileDisabled(s, d, hPipe, in) ==
    [svc |-> s, daemon |-> d, calls |-> <<>>, hr |-> S_OK, eaten |-> FALSE,
     pipe |-> WritePipe(hPipe, Keystroke(in, FALSE), in.io)]

\* OnKeyUp returning E_FAIL when WritePipe left the pipe closed.
OnKeyUpReportsFailure(s, d, hPipe, in) ==
    IF ~s.isEnabled_
    THEN [svc |-> s, daemon |-> d, calls |-> <<>>, hr |-> S_OK,
          pipe |-> NoPipe(hPipe), eaten |-> FALSE]
    ELSE LET w == WritePipe(hPipe, Keystroke(in, FALSE), in.io)
         IN [svc |-> s, daemon |-> d, calls |-> <<>>, eaten |-> FALSE,
             hr |-> IF w.hPipe THEN S_OK ELSE E_FAIL, pipe |-> w]

\* OnKeyUp handing WritePipe isDown = true.
OnKeyUpAsDown(s, d, hPipe, in) ==
    IF ~s.isEnabled_
    THEN [svc |-> s, daemon |-> d, calls |-> <<>>, hr |-> S_OK,
          pipe |-> NoPipe(hPipe), eaten |-> FALSE]
    ELSE [svc |-> s, daemon |-> d, calls |-> <<>>, hr |-> S_OK, eaten |-> FALSE,
          pipe |-> WritePipe(hPipe, Keystroke(in, TRUE), in.io)]

\* WitnessdTextService::OnKeyUp of tsf_text_service.cpp
OnKeyUp(s, d, hPipe, in) ==
    IF ~s.isEnabled_
    THEN [svc |-> s, daemon |-> d, calls |-> <<>>, hr |-> S_OK,
          pipe |-> NoPipe(hPipe), eaten |-> FALSE]
    ELSE [svc |-> s, daemon |-> d, calls |-> <<>>, hr |-> S_OK, eaten |-> FALSE,
          pipe |-> WritePipe(hPipe, Keystroke(in, FALSE), in.io)]

\* WitnessdTextService::OnKeyDown of witnessd_tsf.cpp
BasicOnKeyDown(s, d, hPipe, in) ==
    LET charCode == VKToChar(in.tr)
    IN [svc |-> s, daemon |-> d, hr |-> S_OK, eaten |-> FALSE,
        pipe |-> NoPipe(hPipe),
        calls |-> <<WitnessdOnKeyDown(U16(in.key.wParam), charCode)>>
                  \o (IF charCode >= PrintableLow /\ charCode <= PrintableHigh
                      THEN <<WitnessdOnTextCommit(charCode)>> ELSE <<>>)]

\* WitnessdTextService::OnKeyUp of witnessd_tsf.cpp
BasicOnKeyUp(s, d, hPipe, in) ==
    [svc |-> s, daemon |-> d, calls |-> <<>>, hr |-> S_OK, eaten |-> FALSE,
     pipe |-> NoPipe(hPipe)]

\* NotifyFocusChange reporting "unknown" and "default" for what is not stored.
NotifyFocusChangeUnknown(s, d) ==
    LET app == WideToUTF8(s.currentAppPath_)
        doc == WideToUTF8(s.currentWindowTitle_)
    IN WitnessdOnFocusChange(d, IF app = "" THEN "unknown" ELSE app,
                             IF doc = "" THEN "default" ELSE doc)

\* NotifyFocusChange
NotifyFocusChange(s, d) ==
    WitnessdOnFocusChange(d, WideToUTF8(s.currentAppPath_),
                          WideToUTF8(s.currentWindowTitle_))

\* SetupTextEditSink(currentContext_)
SetupTextEditSink(s, res) ==
    IF ~s.currentContext_ THEN s
    ELSE IF res = "ok" THEN [s EXCEPT !.textEditSinkCookie_ = TRUE]
    ELSE s

\* The document manager that got the focus (0 is nullptr), whether GetTop
\* gave a context, whether AdviseSink on it succeeded (never asked without a
\* context), and the foreground window.
SetFocusInputs ==
    [docMgr : {0}, topOk : {FALSE}, editRes : {"failed"}, focus : FocusInputs]
    \cup [docMgr : DocMgrs \ {0}, topOk : {FALSE}, editRes : {"failed"},
          focus : FocusInputs]
    \cup [docMgr : DocMgrs \ {0}, topOk : {TRUE}, editRes : SinkResults,
          focus : FocusInputs]

\* OnSetFocus up to its UpdateFocusInfo call: the previous context and
\* document manager are released, the new ones tracked.
TrackDocMgr(s, in) ==
    LET s1 == ReleaseContext(s)
    IN IF in.docMgr # 0
       THEN LET t == [s1 EXCEPT !.currentDocMgr_ = in.docMgr,
                                !.currentContext_ = in.topOk]
            IN IF in.topOk THEN SetupTextEditSink(t, in.editRes) ELSE t
       ELSE s1

\* OnSetFocus with NotifyFocusChange before UpdateFocusInfo.
OnSetFocusNotifyFirst(s, d, in) ==
    LET s2 == TrackDocMgr(s, in)
        n  == NotifyFocusChange(s2, d)
        s3 == UpdateFocusInfo(s2, in.focus)
    IN [svc |-> s3, daemon |-> n.daemon, calls |-> <<n.call>>, hr |-> S_OK]

\* WitnessdTextService::OnSetFocus(ITfDocumentMgr*, ITfDocumentMgr*)
OnSetFocus(s, d, in) ==
    LET s2 == TrackDocMgr(s, in)
        s3 == UpdateFocusInfo(s2, in.focus)
        n  == NotifyFocusChange(s3, d)
    IN [svc |-> s3, daemon |-> n.daemon, calls |-> <<n.call>>, hr |-> S_OK]

\* WitnessdTextService::OnSetFocus(BOOL) of tsf_text_service.cpp
OnSetFocusForeground(s, d, focus) ==
    [svc |-> UpdateFocusInfo(s, focus), daemon |-> d, calls |-> <<>>, hr |-> S_OK]

\* WitnessdTextService::OnSetFocus(BOOL) of witnessd_tsf.cpp
BasicOnSetFocus(s, d, focus) ==
    [svc |-> s, daemon |-> d, calls |-> <<>>, hr |-> S_OK]

\* The number of dropped events the service has on record: no member of
\* WitnessdTextService and no variable of the pipe client counts them.
DropCounter(s) == 0

\* SetEnabled
SetEnabled(s, enabled) == [s EXCEPT !.isEnabled_ = enabled]

----------------------------------------------------------------------------
(* State *)

VARIABLES
    build,       \* which DLL is loaded
    svc,         \* the WitnessdTextService object
    g_hPipe,     \* the pipe handle: TRUE when open
    daemon,      \* the daemon's session
    lastOp,      \* the host callback that has just returned, or Idle
    hr,          \* what it returned
    calls,       \* the daemon calls it made, in order
    pipeOps,     \* the pipe operations it made, in order
    eaten,       \* *pfEaten as a key event sink callback left it, else <<>>
    lastSession, \* the last StartSession or EndSession call made so far
    lastSend,    \* how the last WritePipe call so far ended, and what it followed
    event,       \* codec runs: the keystroke handed to the encoder
    frame,       \* codec runs: the bytes handed to WriteFile
    decoded,     \* codec runs: the daemon's reading of the frame
    step,        \* scenario runs: the callbacks made so far
    trace,       \* scenario runs: the daemon calls made so far, in order
    pc,          \* concurrent runs: where each thread is in its callback
    local,       \* concurrent runs: each thread's locals
    told,        \* concurrent runs: the target the daemon was last given
    received,    \* concurrent runs: the last key or text call the daemon got
    dll          \* the module's objects and g_dllRefCount

seqVars   == <<build, svc, g_hPipe, daemon, lastOp, hr, calls, pipeOps, eaten,
               lastSession, lastSend>>
codecVars == <<event, frame, decoded>>
scenVars  == <<step, trace>>
concVars  == <<pc, local, told, received>>

vars == <<seqVars, codecVars, dll, scenVars, concVars>>

----------------------------------------------------------------------------
(* The module: g_dllRefCount, g_classFactory and the COM objects. The code  *)
(* is the same in both builds. factoryRefs and services[i] are the          *)
(* refCount_ members of the class factory and of the text-service objects   *)
(* (0: no such object); heldFactory, held[i] and locks are the references   *)
(* and locks the module's clients have obtained and not yet given back.     *)

\* Bounds of the model: the text-service objects a run may have alive, the
\* references a client may hold on one object, the locks it may hold.
MaxObjects == 2
MaxHeld    == 2
MaxLocks   == 2

S_FALSE == "S_FALSE"

Objects == 1..MaxObjects

\* The module as loaded: DLL_PROCESS_ATTACH creates no object.
DllInit ==
    [g_dllRefCount |-> 0, g_classFactory |-> FALSE, factoryRefs |-> 0,
     services |-> [i \in Objects |-> 0],
     heldFactory |-> 0, held |-> [i \in Objects |-> 0], locks |-> 0]

\* DllCanUnloadNow
DllCanUnloadNow(m) == IF m.g_dllRefCount = 0 THEN S_OK ELSE S_FALSE

\* WitnessdClassFactory::Release; the destructor runs at count 0.
FactoryRelease(m) ==
    LET count == m.factoryRefs - 1
    IN IF count = 0
       THEN [m EXCEPT !.factoryRefs = 0, !.g_dllRefCount = @ - 1]
       ELSE [m EXCEPT !.factoryRefs = count]

\* DllGetClassObject; clsidOk: rclsid is the text service's CLSID, riidOk:
\* riid is IID_IUnknown or IID_IClassFactory.
DllGetClassObject(m, clsidOk, riidOk) ==
    IF ~clsidOk THEN [dll |-> m, hr |-> "CLASS_E_CLASSNOTAVAILABLE"]
    ELSE LET m1 == IF ~m.g_classFactory
                   THEN [m EXCEPT !.g_classFactory = TRUE, !.factoryRefs = 1,
                                  !.g_dllRefCount = @ + 1]
                   ELSE m
         IN IF riidOk
            THEN [dll |-> [m1 EXCEPT !.factoryRefs = @ + 1], hr |-> S_OK]
            ELSE [dll |-> m1, hr |-> "E_NOINTERFACE"]

\* WitnessdClassFactory::AddRef
FactoryAddRef(m) == [m EXCEPT !.factoryRefs = @ + 1]

\* WitnessdTextService::AddRef of object i
ServiceAddRef(m, i) == [m EXCEPT !.services[i] = @ + 1]

\* WitnessdTextService::Release of object i; the destructor runs at count 0.
ServiceRelease(m, i) ==
    LET count == m.services[i] - 1
    IN IF count = 0
       THEN [m EXCEPT !.services[i] = 0, !.g_dllRefCount = @ - 1]
       ELSE [m EXCEPT !.services[i] = count]

\* WitnessdClassFactory::CreateInstance and WitnessdTextService::CreateInstance
\* making object i; outer: pUnkOuter is not null, riidOk: the text service
\* has the interface asked for.
CreateInstance(m, i, outer, riidOk) ==
    IF outer THEN [dll |-> m, hr |-> "CLASS_E_NOAGGREGATION"]
    ELSE LET made == [m EXCEPT !.services[i] = 1, !.g_dllRefCount = @ + 1]
             got  == IF riidOk THEN ServiceAddRef(made, i) ELSE made
         IN [dll |-> ServiceRelease(got, i),
             hr |-> IF riidOk THEN S_OK ELSE "E_NOINTERFACE"]

\* WitnessdClassFactory::LockServer
LockServer(m, fLock) ==
    IF fLock THEN [m EXCEPT !.g_dllRefCount = @ + 1]
    ELSE [m EXCEPT !.g_dllRefCount = @ - 1]

\* The module with one text service made for the host, which has released
\* the class factory again.
Serving ==
    LET a == DllGetClassObject(DllInit, TRUE, TRUE).dll
        b == CreateInstance(a, 1, FALSE, TRUE).dll
    IN [FactoryRelease(b) EXCEPT !.held[1] = 1]

----------------------------------------------------------------------------
(* What a run records *)

IsSessionCall(c) == c.fn \in {"WitnessdStartSession", "WitnessdEndSession"}

\* The session-control calls among cs, each as its name and its reply.
SessionCalls(cs) ==
    LET sel == SelectSeq(cs, IsSessionCall)
    IN [i \in 1..Len(sel) |-> [fn |-> sel[i].fn, ok |-> sel[i].ok]]

Idle == "idle"

NoCall == [fn |-> "none", ok |-> TRUE]

NoSend == [end |-> "none", afterWriteFailure |-> FALSE]

LastOf(seq) == seq[Len(seq)]

\* A freshly constructed service: nothing connected, no daemon session.
Constructed ==
    /\ svc = ServiceInit
    /\ g_hPipe = FALSE
    /\ daemon = DaemonInit
    /\ lastOp = Idle
    /\ hr = S_OK
    /\ calls = <<>>
    /\ pipeOps = <<>>
    /\ eaten = <<>>
    /\ lastSession = NoCall
    /\ lastSend = NoSend
    /\ dll = Serving

NoEvent == [timestamp |-> 0, vkCode |-> 0, scanCode |-> 0, flags |-> 0,
            isDown |-> FALSE]

CodecIdle == event = NoEvent /\ frame = <<>> /\ decoded = <<>>

ScenarioIdle == step = 0 /\ trace = <<>>

\* The threads of a concurrent run: two deliver OnKeyDown, one OnSetFocus.
KeyThreads  == {"K1", "K2"}
FocusThread == "F"
Threads     == KeyThreads \cup {FocusThread}

NoTarget == <<"", "">>

NoLocal == [in |-> <<>>, target |-> NoTarget, pending |-> <<>>]

NoReceived == [fn |-> "none", accepted |-> NoTarget, attributed |-> NoTarget]

ConcIdle ==
    /\ pc = [t \in Threads |-> "idle"]
    /\ local = [t \in Threads |-> NoLocal]
    /\ told = NoTarget
    /\ received = NoReceived

Init ==
    /\ build \in Builds
    /\ Constructed
    /\ CodecIdle
    /\ ScenarioIdle
    /\ ConcIdle

\* How a WritePipe call that made the pipe operations ops ended, and whether
\* the WritePipe call before it ended in a failed write; before if WritePipe
\* was not called.
SendOutcome(before, ops) ==
    IF ops = <<>> THEN before
    ELSE [end |-> IF \E i \in 1..Len(ops) : ops[i].op = "WriteFile" /\ ~ops[i].ok
                  THEN "write failed"
                  ELSE IF \E i \in 1..Len(ops) : ops[i].op = "WriteFile"
                       THEN "sent" ELSE "connect failed",
          afterWriteFailure |-> before.end = "write failed"]

\* A host callback ran: r is what its handler returned.
Returns(op, r) ==
    /\ lastOp = Idle
    /\ r.svc.tmRefs <= MaxRefs
    /\ svc' = r.svc
    /\ daemon' = r.daemon
    /\ hr' = r.hr
    /\ calls' = r.calls
    /\ eaten' = IF "eaten" \in DOMAIN r THEN <<r.eaten>> ELSE <<>>
    /\ lastSession' = LastOf(<<lastSession>> \o SessionCalls(r.calls))
    /\ lastOp' = op
    /\ UNCHANGED build

\* The same for a key callback, which may use the pipe.
KeyReturns(op, r) ==
    /\ Returns(op, r)
    /\ g_hPipe' = r.pipe.hPipe
    /\ pipeOps' = r.pipe.ops
    /\ lastSend' = SendOutcome(lastSend, r.pipe.ops)

NoKeyReturns(op, r) ==
    /\ Returns(op, r)
    /\ pipeOps' = <<>>
    /\ UNCHANGED <<g_hPipe, lastSend>>

HostActivate ==
    /\ \E in \in ActivateInputs :
           NoKeyReturns("ActivateEx",
                        IF build = Complete THEN ActivateEx(svc, daemon, in)
                        ELSE BasicActivateEx(svc, daemon, in))
    /\ UNCHANGED <<codecVars, dll, scenVars, concVars>>

HostDeactivate ==
    /\ \E endOk \in BOOLEAN :
           NoKeyReturns("Deactivate",
                        IF build = Complete THEN Deactivate(svc, daemon, endOk)
                        ELSE BasicDeactivate(svc, daemon, endOk))
    /\ UNCHANGED <<codecVars, dll, scenVars, concVars>>

HostKeyDown ==
    /\ \E in \in KeyInputs :
           KeyReturns("OnKeyDown",
                      IF build = Complete THEN OnKeyDown(svc, daemon, g_hPipe, in)
                      ELSE BasicOnKeyDown(svc, daemon, g_hPipe, in))
    /\ UNCHANGED <<codecVars, dll, scenVars, concVars>>

HostKeyUp ==
    /\ \E in \in KeyUpInputs :
           KeyReturns("OnKeyUp",
                      IF build = Complete THEN OnKeyUp(svc, daemon, g_hPipe, in)
                      ELSE BasicOnKeyUp(svc, daemon, g_hPipe, in))
    /\ UNCHANGED <<codecVars, dll, scenVars, concVars>>

HostTestKeyDown ==
    /\ KeyReturns("OnTestKeyDown", OnTestKeyDown(svc, daemon, g_hPipe))
    /\ UNCHANGED <<codecVars, dll, scenVars, concVars>>

HostTestKeyUp ==
    /\ KeyReturns("OnTestKeyUp", OnTestKeyUp(svc, daemon, g_hPipe))
    /\ UNCHANGED <<codecVars, dll, scenVars, concVars>>

HostPreservedKey ==
    /\ KeyReturns("OnPreservedKey", OnPreservedKey(svc, daemon, g_hPipe))
    /\ UNCHANGED <<codecVars, dll, scenVars, concVars>>

\* ITfThreadMgrEventSink::OnSetFocus: the complete service alone has it.
HostSetFocus ==
    /\ build = Complete
    /\ \E in \in SetFocusInputs :
           NoKeyReturns("OnSetFocus", OnSetFocus(svc, daemon, in))
    /\ UNCHANGED <<codecVars, dll, scenVars, concVars>>

\* ITfKeyEventSink::OnSetFocus(BOOL)
HostForeground ==
    /\ \E focus \in FocusInputs :
           NoKeyReturns("OnSetFocus(BOOL)",
                        IF build = Complete THEN OnSetFocusForeground(svc, daemon, focus)
                        ELSE BasicOnSetFocus(svc, daemon, focus))
    /\ UNCHANGED <<codecVars, dll, scenVars, concVars>>

HostSetEnabled ==
    /\ build = Complete
    /\ \E enabled \in BOOLEAN :
           NoKeyReturns("SetEnabled",
                        [svc |-> SetEnabled(svc, enabled), daemon |-> daemon,
                         calls |-> <<>>, hr |-> S_OK])
    /\ UNCHANGED <<codecVars, dll, scenVars, concVars>>

\* The host takes the callback's result and goes on.
Continue ==
    /\ lastOp # Idle
    /\ lastOp' = Idle
    /\ hr' = S_OK
    /\ calls' = <<>>
    /\ pipeOps' = <<>>
    /\ eaten' = <<>>
    /\ UNCHANGED <<build, svc, g_hPipe, daemon, lastSession, lastSend>>

HostContinue == Continue /\ UNCHANGED <<codecVars, dll, scenVars, concVars>>

Next ==
    \/ HostContinue
    \/ HostActivate
    \/ HostDeactivate
    \/ HostKeyDown
    \/ HostKeyUp
    \/ HostTestKeyDown
    \/ HostTestKeyUp
    \/ HostPreservedKey
    \/ HostSetFocus
    \/ HostForeground
    \/ HostSetEnabled

Spec == Init /\ [][Next]_vars

----------------------------------------------------------------------------
(* What the properties below speak of *)

KeyOps == {"OnKeyDown", "OnKeyUp"}

\* The callbacks of ITfKeyEventSink that are handed a pfEaten.
KeySinkOps == KeyOps \cup {"OnTestKeyDown", "OnTestKeyUp", "OnPreservedKey"}

TextFns == {"WitnessdOnTextCommit", "WitnessdOnTextDelete"}

\* How many of the pipe operations ops are `op`.
Count(ops, op) == Cardinality({i \in 1..Len(ops) : ops[i].op = op})

\* The target the service holds: application path and window title, as
\* NotifyFocusChange would report them.
StoredTarget(s) ==
    <<WideToUTF8(s.currentAppPath_), WideToUTF8(s.currentWindowTitle_)>>

RECURSIVE HandleAfter(_, _, _)
\* Whether the pipe handle is open after the first k of the operations ops,
\* having been h before them.
HandleAfter(h, ops, k) ==
    IF k = 0 THEN h
    ELSE IF ops[k].op = "CreateFileW" THEN ops[k].ok
    ELSE IF ops[k].op = "CloseHandle" THEN FALSE
    ELSE HandleAfter(h, ops, k - 1)

----------------------------------------------------------------------------
(* Codec runs: a keystroke is encoded as WritePipe encodes it and read back *)
(* as the daemon reads it.                                                  *)

\* Field values over the range of each member of the msg struct, within
\* 32-bit integers: the least and greatest of them, zero, byte boundaries.
CodecTimestamps == {-2147483647 - 1, -1, 0, 255, 256, 1234567890, 2147483647}
CodecKeys       == {0, 65, 255, 256, 65535}
CodecScans      == {0, 30, 65535}
CodecFlags      == {0, 1966081, 2147483647}

KeystrokeEvents ==
    [timestamp : CodecTimestamps, vkCode : CodecKeys, scanCode : CodecScans,
     flags : CodecFlags, isDown : BOOLEAN]

InitCodec ==
    /\ build = Complete
    /\ Constructed
    /\ ScenarioIdle
    /\ ConcIdle
    /\ event \in KeystrokeEvents
    /\ frame = <<>>
    /\ decoded = <<>>

\* WritePipe fills msg and hands its bytes to WriteFile.
CodecEncode ==
    /\ frame = <<>>
    /\ frame' = EncodeKeystroke(event)
    /\ UNCHANGED <<seqVars, event, decoded, dll, scenVars, concVars>>

\* The daemon reads the frame.
CodecDecode ==
    /\ frame # <<>>
    /\ decoded = <<>>
    /\ decoded' = <<DecodeKeystroke(frame)>>
    /\ UNCHANGED <<seqVars, event, frame, dll, scenVars, concVars>>

NextCodec == CodecEncode \/ CodecDecode

SpecCodec == InitCodec /\ [][NextCodec]_vars

\* C9: the frame of a keystroke is exactly 17 bytes, and read by the layout
\* timestamp(8) | virtualKeyCode(2) | scanCode(2) | flags(4) | isKeyDown(1)
\* it gives back the keystroke that was encoded, field for field.
C9_FrameRoundTrip ==
    /\ frame # <<>> => /\ Len(frame) = FrameBytes
                       /\ \A i \in 1..Len(frame) : frame[i] \in 0..255
    /\ decoded # <<>> => decoded = <<event>>

\* A key-down with a negative timestamp and the largest flags was encoded
\* and read back.
C9_Witness ==
    /\ decoded = <<event>>
    /\ Len(frame) = FrameBytes
    /\ event.timestamp < 0
    /\ event.vkCode = 65
    /\ event.flags = 2147483647
    /\ event.isDown

----------------------------------------------------------------------------
(* Scenario runs: ActivateEx, OnSetFocus on window H1, OnKeyDown of a       *)
(* printable key, OnKeyDown of Backspace, Deactivate, on a freshly          *)
(* constructed complete service.                                            *)

InitScenario ==
    /\ build = Complete
    /\ Constructed
    /\ CodecIdle
    /\ ConcIdle
    /\ step = 0
    /\ trace = <<>>

\* One more callback of the scenario has returned.
Advance ==
    /\ step' = step + 1
    /\ trace' = trace \o calls'
    /\ UNCHANGED <<codecVars, dll, concVars>>

IsPrintable(charCode) == charCode >= PrintableLow /\ charCode <= PrintableHigh

\* ActivateEx with both sinks set up: any foreground window, any reply to
\* StartSession.
ScenarioActivate ==
    /\ step = 0
    /\ \E in \in {a \in ActivateInputs : a.keyRes = "ok" /\ a.tmRes = "ok"} :
           NoKeyReturns("ActivateEx", ActivateEx(svc, daemon, in))
    /\ Advance

\* OnSetFocus with window H1 in the foreground, its title and path found.
ScenarioFocus ==
    /\ step = 1
    /\ \E in \in {f \in SetFocusInputs :
                    f.focus = [hwnd |-> "H1", titleOk |-> TRUE, pathOk |-> TRUE]} :
           NoKeyReturns("OnSetFocus", OnSetFocus(svc, daemon, in))
    /\ Advance

\* OnKeyDown of the key 'A', translated to a printable character.
ScenarioPrintableKey ==
    /\ step = 2
    /\ \E in \in {k \in KeyInputs : k.key = KeyA /\ IsPrintable(VKToChar(k.tr))} :
           KeyReturns("OnKeyDown", OnKeyDown(svc, daemon, g_hPipe, in))
    /\ Advance

\* OnKeyDown of Backspace, translated to no printable character.
ScenarioDeleteKey ==
    /\ step = 3
    /\ \E in \in {k \in KeyInputs : k.key = KeyBack /\ ~IsPrintable(VKToChar(k.tr))} :
           KeyReturns("OnKeyDown", OnKeyDown(svc, daemon, g_hPipe, in))
    /\ Advance

ScenarioDeactivate ==
    /\ step = 4
    /\ \E endOk \in BOOLEAN :
           NoKeyReturns("Deactivate", Deactivate(svc, daemon, endOk))
    /\ Advance

ScenarioContinue == Continue /\ UNCHANGED <<codecVars, dll, scenVars, concVars>>

NextScenario ==
    \/ ScenarioContinue
    \/ ScenarioActivate
    \/ ScenarioFocus
    \/ ScenarioPrintableKey
    \/ ScenarioDeleteKey
    \/ ScenarioDeactivate

SpecScenario == InitScenario /\ [][NextScenario]_vars

IsSessionOrTextCall(c) == IsSessionCall(c) \/ c.fn \in TextFns

\* The target ActivateEx gives StartSession for the stored target of s.
SessionTarget(s) ==
    <<IF StoredTarget(s)[1] = "" THEN "windows.tsf" ELSE StoredTarget(s)[1],
      IF StoredTarget(s)[2] = "" THEN "default" ELSE StoredTarget(s)[2]>>

----------------------------------------------------------------------------
(* Concurrent runs: the host delivers OnKeyDown on two threads and          *)
(* OnSetFocus on a third to a complete service that is activated with a     *)
(* session open for window H1. No handler takes a lock (the class declares  *)
(* keystrokeQueueMutex_ and never locks it), so the threads interleave      *)
(* between any two calls a handler makes. The daemon attributes a key or    *)
(* text call to the target it was last given, by StartSession or by         *)
(* WitnessdOnFocusChange.                                                   *)

ActivatedOnH1 ==
    ActivateEx(ServiceInit, DaemonInit,
               [keyRes |-> "ok", tmRes |-> "ok", startOk |-> TRUE,
                focus |-> [hwnd |-> "H1", titleOk |-> TRUE, pathOk |-> TRUE]])

InitConc ==
    /\ build = Complete
    /\ svc = ActivatedOnH1.svc
    /\ daemon = ActivatedOnH1.daemon
    /\ g_hPipe \in BOOLEAN
    /\ lastOp = Idle
    /\ hr = S_OK
    /\ calls = <<>>
    /\ pipeOps = <<>>
    /\ eaten = <<>>
    /\ lastSession = LastOf(SessionCalls(ActivatedOnH1.calls))
    /\ lastSend = NoSend
    /\ CodecIdle
    /\ dll = Serving
    /\ ScenarioIdle
    /\ pc = [t \in Threads |-> "idle"]
    /\ local = [t \in Threads |-> NoLocal]
    /\ told = <<ActivatedOnH1.calls[1].s1, ActivatedOnH1.calls[1].s2>>
    /\ received = NoReceived

\* The key events of a concurrent run: 'A' translated to 'a', or Backspace
\* with no translation; the pipe working or not.
ConcKeyInputs ==
    {k \in KeyInputs :
        /\ k.tr \in {Translation(TRUE, 1, 97), Translation(FALSE, 0, 0)}
        /\ (k.key = KeyA) = (k.tr.kbOk)
        /\ k.io.created = k.io.written}

ConcFocusInputs ==
    {f \in SetFocusInputs : f.docMgr # 0 /\ f.topOk /\ f.editRes = "ok"}

Goto(t, label) == pc' = [pc EXCEPT ![t] = label]

\* OnKeyDown, to its isEnabled_ test: the event is accepted for the target
\* the daemon has at this moment.
KeyEnter(t) ==
    /\ pc[t] = "idle"
    /\ \E in \in ConcKeyInputs :
           IF ~svc.isEnabled_
           THEN Goto(t, "done") /\ UNCHANGED local
           ELSE /\ local' = [local EXCEPT ![t] = [in |-> <<in>>, target |-> told,
                                                  pending |-> <<>>]]
                /\ Goto(t, "WritePipe")
    /\ UNCHANGED <<seqVars, codecVars, dll, scenVars, told, received>>

\* OnKeyDown: the WritePipe call, then VKToChar.
KeyWritePipe(t) ==
    /\ pc[t] = "WritePipe"
    /\ LET in == local[t].in[1]
           charCode == VKToChar(in.tr)
       IN /\ g_hPipe' = WritePipe(g_hPipe, Keystroke(in, TRUE), in.io).hPipe
          /\ local' = [local EXCEPT ![t].pending =
                           <<WitnessdOnKeyDown(U16(in.key.wParam), charCode)>>
                           \o TextCalls(in.key.wParam, charCode)]
    /\ Goto(t, "calls")
    /\ UNCHANGED <<build, svc, daemon, lastOp, hr, calls, pipeOps, eaten,
                   lastSession, lastSend, codecVars, dll, scenVars, told, received>>

\* OnKeyDown: the next of WitnessdOnKeyDown, WitnessdOnTextCommit and
\* WitnessdOnTextDelete reaches the daemon.
KeyCall(t) ==
    /\ pc[t] = "calls"
    /\ local[t].pending # <<>>
    /\ received' = [fn |-> Head(local[t].pending).fn,
                    accepted |-> local[t].target, attributed |-> told]
    /\ local' = [local EXCEPT ![t].pending = Tail(@)]
    /\ UNCHANGED <<seqVars, codecVars, dll, scenVars, pc, told>>

\* OnKeyDown returns.
KeyReturn(t) ==
    /\ pc[t] = "calls"
    /\ local[t].pending = <<>>
    /\ local' = [local EXCEPT ![t] = NoLocal]
    /\ Goto(t, "done")
    /\ UNCHANGED <<seqVars, codecVars, dll, scenVars, told, received>>

\* OnSetFocus, to its UpdateFocusInfo call.
FocusEnter ==
    /\ pc[FocusThread] = "idle"
    /\ \E in \in ConcFocusInputs :
           /\ svc' = TrackDocMgr(svc, in)
           /\ local' = [local EXCEPT ![FocusThread].in = <<in>>]
    /\ Goto(FocusThread, "UpdateFocusInfo")
    /\ UNCHANGED <<build, g_hPipe, daemon, lastOp, hr, calls, pipeOps, eaten,
                   lastSession, lastSend, codecVars, dll, scenVars, told, received>>

FocusUpdate ==
    /\ pc[FocusThread] = "UpdateFocusInfo"
    /\ svc' = UpdateFocusInfo(svc, local[FocusThread].in[1].focus)
    /\ Goto(FocusThread, "NotifyFocusChange")
    /\ UNCHANGED <<build, g_hPipe, daemon, lastOp, hr, calls, pipeOps, eaten,
                   lastSession, lastSend, codecVars, dll, scenVars, local, told,
                   received>>

\* NotifyFocusChange: the daemon is given the stored target; OnSetFocus
\* returns.
FocusNotify ==
    /\ pc[FocusThread] = "NotifyFocusChange"
    /\ LET n == NotifyFocusChange(svc, daemon)
       IN /\ daemon' = n.daemon
          /\ told' = <<n.call.s1, n.call.s2>>
    /\ local' = [local EXCEPT ![FocusThread] = NoLocal]
    /\ Goto(FocusThread, "done")
    /\ UNCHANGED <<build, svc, g_hPipe, lastOp, hr, calls, pipeOps, eaten,
                   lastSession, lastSend, codecVars, dll, scenVars, received>>

NextConc ==
    \/ \E t \in KeyThreads : KeyEnter(t)
    \/ \E t \in KeyThreads : KeyWritePipe(t)
    \/ \E t \in KeyThreads : KeyCall(t)
    \/ \E t \in KeyThreads : KeyReturn(t)
    \/ FocusEnter
    \/ FocusUpdate
    \/ FocusNotify

SpecConc == InitConc /\ [][NextConc]_vars

\* C5 (as the spec states it): however the key callbacks and the focus
\* callback interleave, the one session opened at activation stays the only
\* one, and every key or text call the daemon receives is attributed to the
\* target it had when the key callback accepted the event.
C5_EventsAttributedToAcceptedTarget ==
    /\ WitnessdHasActiveSession(daemon)
    /\ lastSession = [fn |-> "WitnessdStartSession", ok |-> TRUE]
    /\ received.fn # "none" => received.attributed = received.accepted

----------------------------------------------------------------------------
(* Properties of the sequential runs (Spec) *)

\* C1: immediately after any Deactivate returns, whatever the daemon replied
\* to StartSession and EndSession before, the daemon has no active session.
C1_NoSessionAfterDeactivate ==
    lastOp = "Deactivate" => ~WitnessdHasActiveSession(daemon)

\* A Deactivate of the complete service that ended a session, the daemon
\* returning no evidence.
C1_Witness ==
    /\ build = Complete
    /\ lastOp = "Deactivate"
    /\ Len(calls) = 1
    /\ calls[1].fn = "WitnessdEndSession"
    /\ ~calls[1].ok
    /\ ~svc.isActivated_

\* C2 (as the spec states it): a key callback delivered while the service is
\* not activated and the daemon has no session writes no frame and makes no
\* TextCommit or TextDelete call.
C2_NoForwardingWithoutSession ==
    (lastOp \in KeyOps /\ ~svc.isActivated_ /\ ~WitnessdHasActiveSession(daemon))
    => /\ Count(pipeOps, "WriteFile") = 0
       /\ \A i \in 1..Len(calls) : calls[i].fn \notin TextFns

\* A focus callback that moved the stored target while the service is
\* activated and a session is open.
FocusMoved ==
    /\ lastOp = Idle
    /\ lastOp' = "OnSetFocus"
    /\ svc.isActivated_
    /\ WitnessdHasActiveSession(daemon)
    /\ StoredTarget(svc') # StoredTarget(svc)

C4_SameHandleIsNoOp ==
    [][(lastOp = Idle /\ lastOp' = "OnSetFocus"
        /\ svc'.currentFocusWindow_ = svc.currentFocusWindow_)
       => /\ calls' = <<>>
          /\ StoredTarget(svc') = StoredTarget(svc)]_vars

\* C6 (as the spec states it): the session-control calls alternate
\* StartSession, EndSession, StartSession, ..., beginning with StartSession.
C6_StrictAlternation ==
    [][LET sc == SessionCalls(calls')
       IN \A i \in 1..Len(sc) :
            LET prev == IF i = 1 THEN lastSession ELSE sc[i - 1]
            IN /\ sc[i].fn = "WitnessdStartSession"
                  => prev.fn \in {"none", "WitnessdEndSession"}
               /\ sc[i].fn = "WitnessdEndSession"
                  => prev.fn = "WitnessdStartSession"]_vars

\* C6 (amended): a callback makes at most one session-control call; the
\* first one is a StartSession; an EndSession directly follows a
\* StartSession; a StartSession directly follows an EndSession or a
\* StartSession that failed, and is made only while no session is active.
C6_AlternationUpToFailedStart ==
    [][LET sc == SessionCalls(calls')
       IN /\ Len(sc) <= 1
          /\ \A i \in 1..Len(sc) :
               /\ sc[i].fn = "WitnessdStartSession"
                  => /\ \/ lastSession.fn \in {"none", "WitnessdEndSession"}
                        \/ /\ lastSession.fn = "WitnessdStartSession"
                           /\ ~lastSession.ok
                     /\ ~WitnessdHasActiveSession(daemon)
               /\ sc[i].fn = "WitnessdEndSession"
                  => lastSession.fn = "WitnessdStartSession"]_vars

\* The complete service deactivated with a failed StartSession as the last
\* session-control call: no EndSession followed it.
C6_Witness ==
    /\ build = Complete
    /\ lastOp = "Deactivate"
    /\ ~svc.isActivated_
    /\ calls = <<>>
    /\ lastSession = [fn |-> "WitnessdStartSession", ok |-> FALSE]

\* C8: when WritePipe's WriteFile fails the pipe handle is closed on return
\* and stays so until the next WritePipe; that next WritePipe makes exactly
\* one CreateFileW call, first, and exactly one WriteFile call if the
\* CreateFileW succeeded, none if it did not.
C8_FailedWriteDisconnects ==
    /\ lastSend.end = "write failed" => ~g_hPipe
    /\ (lastOp \in KeyOps /\ pipeOps # <<>> /\ lastSend.afterWriteFailure)
       => /\ pipeOps[1].op = "CreateFileW"
          /\ Count(pipeOps, "CreateFileW") = 1
          /\ Count(pipeOps, "WriteFile") = (IF pipeOps[1].ok THEN 1 ELSE 0)

\* The WritePipe after a failed write has reconnected and written its frame.
C8_Witness ==
    /\ lastOp \in KeyOps
    /\ lastSend = [end |-> "sent", afterWriteFailure |-> TRUE]
    /\ Len(pipeOps) = 2
    /\ pipeOps[1] = PipeOp("CreateFileW", TRUE, <<>>)
    /\ pipeOps[2].op = "WriteFile"
    /\ g_hPipe

\* C10: every WriteFile call of a key callback is made on an open handle,
\* and a key callback that finds the handle closed and whose CreateFileW
\* fails makes no WriteFile call.
C10_WriteOnlyWhenConnected ==
    [][lastOp' \in KeyOps =>
         /\ \A i \in 1..Len(pipeOps') :
              pipeOps'[i].op = "WriteFile" => HandleAfter(g_hPipe, pipeOps', i - 1)
         /\ (~g_hPipe /\ pipeOps' # <<>> /\ ~pipeOps'[1].ok)
            => /\ pipeOps' = <<PipeOp("CreateFileW", FALSE, <<>>)>>
               /\ ~g_hPipe']_vars

\* A key callback found the handle closed, could not connect and wrote
\* nothing.
C10_Witness ==
    /\ lastOp \in KeyOps
    /\ pipeOps = <<PipeOp("CreateFileW", FALSE, <<>>)>>
    /\ lastSend.end = "connect failed"
    /\ ~g_hPipe

----------------------------------------------------------------------------
(* The enabled flag, the key event sink's answers, repeated activation and *)
(* deactivation                                                            *)

\* The service s with recording enabled.
Enabled(s) == [s EXCEPT !.isEnabled_ = TRUE]

\* This step left what the handler result r says, but for the enabled flag,
\* which stays as it was.
SameButEnabled(r) ==
    /\ svc' = [r.svc EXCEPT !.isEnabled_ = svc.isEnabled_]
    /\ daemon' = r.daemon
    /\ calls' = r.calls
    /\ hr' = r.hr
    /\ pipeOps' = <<>>
    /\ g_hPipe' = g_hPipe

\* C11: while isEnabled_ is false, OnKeyDown and OnKeyUp do nothing (no pipe
\* operation at all, so no frame and no connect attempt, no daemon call, no
\* field changed, S_OK returned), while ActivateEx, Deactivate and both
\* OnSetFocus callbacks do exactly what they do on the same service with
\* isEnabled_ true.
C11_DisabledKeysAreNoOps ==
    [][~svc.isEnabled_ =>
         /\ lastOp' \in KeyOps =>
                /\ pipeOps' = <<>> /\ calls' = <<>> /\ hr' = S_OK
                /\ svc' = svc /\ daemon' = daemon /\ g_hPipe' = g_hPipe
                /\ lastSession' = lastSession /\ lastSend' = lastSend
         /\ lastOp' = "ActivateEx" =>
                \E in \in ActivateInputs :
                    SameButEnabled(ActivateEx(Enabled(svc), daemon, in))
         /\ lastOp' = "Deactivate" =>
                \E endOk \in BOOLEAN :
                    SameButEnabled(Deactivate(Enabled(svc), daemon, endOk))
         /\ lastOp' = "OnSetFocus" =>
                \E in \in SetFocusInputs :
                    SameButEnabled(OnSetFocus(Enabled(svc), daemon, in))
         /\ lastOp' = "OnSetFocus(BOOL)" =>
                \E focus \in FocusInputs :
                    SameButEnabled(OnSetFocusForeground(Enabled(svc), daemon, focus))
      ]_vars

\* A key went down on an activated, disabled service whose pipe is open:
\* nothing was written and the daemon was not called.
C11_Witness ==
    /\ lastOp = "OnKeyDown"
    /\ ~svc.isEnabled_
    /\ svc.isActivated_
    /\ g_hPipe
    /\ pipeOps = <<>>
    /\ calls = <<>>

\* C12: every callback of the key event sink (OnTestKeyDown, OnTestKeyUp,
\* OnKeyDown, OnKeyUp, OnPreservedKey) leaves *pfEaten FALSE and returns S_OK,
\* whatever state the service is in.
C12_KeysNeverEaten ==
    lastOp \in KeySinkOps => eaten = <<FALSE>> /\ hr = S_OK

\* OnTestKeyDown answered on a service that is not even activated.
C12_Witness ==
    /\ lastOp = "OnTestKeyDown"
    /\ ~svc.isActivated_
    /\ eaten = <<FALSE>>
    /\ hr = S_OK

\* C13: ActivateEx on an activated service returns S_OK and does nothing: no
\* daemon call (so no StartSession), no further thread-manager reference, no
\* sink advised, no field changed.
C13_ActivateTwiceIsNoOp ==
    [][(lastOp' = "ActivateEx" /\ svc.isActivated_) =>
          /\ hr' = S_OK
          /\ calls' = <<>>
          /\ svc' = svc
          /\ daemon' = daemon
          /\ g_hPipe' = g_hPipe
          /\ lastSession' = lastSession
      ]_vars

\* ActivateEx returned on a service that is activated and holds its one
\* thread-manager reference, having called nothing: the second activation.
C13_Witness ==
    /\ lastOp = "ActivateEx"
    /\ svc.isActivated_
    /\ svc.tmRefs = 1
    /\ calls = <<>>
    /\ hr = S_OK

\* C14: Deactivate always returns S_OK and leaves the service not activated;
\* on a service that is not activated it calls nothing (so no EndSession) and
\* changes nothing, so a second Deactivate adds nothing to the first.
C14_DeactivateIdempotent ==
    [][lastOp' = "Deactivate" =>
          /\ hr' = S_OK
          /\ ~svc'.isActivated_
          /\ ~svc.isActivated_ =>
                 /\ calls' = <<>>
                 /\ svc' = svc
                 /\ daemon' = daemon
                 /\ g_hPipe' = g_hPipe
                 /\ lastSession' = lastSession
      ]_vars

\* Deactivate returned without a call although the last session call so far
\* is an EndSession: the service had been deactivated before.
C14_Witness ==
    /\ lastOp = "Deactivate"
    /\ calls = <<>>
    /\ lastSession.fn = "WitnessdEndSession"
    /\ ~svc.isActivated_

----------------------------------------------------------------------------
(* Text events                                                              *)

\* The calls named fn among cs.
CallsOf(cs, fn) == SelectSeq(cs, LAMBDA c : c.fn = fn)

\* C15: every OnKeyDown the complete service accepts while enabled reports the
\* key and its translated character with WitnessdOnKeyDown, then issues one
\* WitnessdOnTextCommit of that character iff it lies in 0x20..0x7E, one
\* WitnessdOnTextDelete(1) iff the key is VK_BACK, and no other text call.
C15_TextEventsByCharAndKey ==
    (build = Complete /\ lastOp = "OnKeyDown" /\ svc.isEnabled_) =>
        /\ calls # <<>>
        /\ calls[1].fn = "WitnessdOnKeyDown"
        /\ LET vk      == calls[1].n1
               ch      == calls[1].n2
               commits == CallsOf(calls, "WitnessdOnTextCommit")
               deletes == CallsOf(calls, "WitnessdOnTextDelete")
           IN /\ commits = IF ch >= 32 /\ ch <= 126
                           THEN <<WitnessdOnTextCommit(ch)>> ELSE <<>>
              /\ deletes = IF vk = 8
                           THEN <<WitnessdOnTextDelete(1)>> ELSE <<>>
              /\ Len(calls) = 1 + Len(commits) + Len(deletes)

\* 'A' went down and was translated to a space, the least printable
\* character: the daemon got the key and one commit of the space.
C15_Witness ==
    /\ build = Complete
    /\ lastOp = "OnKeyDown"
    /\ calls = <<WitnessdOnKeyDown(65, 32), WitnessdOnTextCommit(32)>>

----------------------------------------------------------------------------
(* Failures: the pipe server absent, the focused window unresolved,         *)
(* StartSession failing, and what Deactivate leaves of the pipe             *)

\* WritePipe found the pipe closed and ConnectPipe's CreateFileW failed.
ConnectFailed(ops) ==
    \E i \in 1..Len(ops) : ops[i].op = "CreateFileW" /\ ~ops[i].ok

Unresolved(s) == StoredTarget(s)[1] = "" \/ StoredTarget(s)[2] = ""

\* C17 (as the spec states it): when the focused window is not resolved, the
\* target the complete service gives to StartSession and to focus-change
\* notifications is ("unknown", "default"), and the callback still completes.
C17_UnknownDefaultReported ==
    (build = Complete /\ lastOp \in {"ActivateEx", "OnSetFocus"}
       /\ calls # <<>> /\ Unresolved(svc)) =>
        /\ <<calls[1].s1, calls[1].s2>> = <<"unknown", "default">>
        /\ hr = S_OK

\* C17 (amended): the target reported is made of what the service has stored.
\* StartSession is given "windows.tsf" for an empty application path and
\* "default" for an empty window title, each on its own; a focus-change
\* notification is given the stored strings as they are, empty ones
\* included; "unknown" is never reported; and the callback still completes:
\* ActivateEx returns S_OK activated, OnSetFocus returns S_OK after its one
\* notification.
C17_StoredTargetReported ==
    /\ \A i \in 1..Len(calls) : calls[i].s1 # "unknown"
    /\ (lastOp = "ActivateEx" /\ calls # <<>>) =>
           /\ calls[1].fn = "WitnessdStartSession"
           /\ calls[1].s1 = (IF StoredTarget(svc)[1] = "" THEN "windows.tsf"
                             ELSE StoredTarget(svc)[1])
           /\ calls[1].s2 = (IF StoredTarget(svc)[2] = "" THEN "default"
                             ELSE StoredTarget(svc)[2])
           /\ svc.isActivated_
           /\ hr = S_OK
    /\ lastOp = "OnSetFocus" =>
           /\ Len(calls) = 1
           /\ calls[1].fn = "WitnessdOnFocusChange"
           /\ <<calls[1].s1, calls[1].s2>> = StoredTarget(svc)
           /\ hr = S_OK

\* The focus moved to a window of which neither the title nor the process
\* path could be read: the daemon was notified of two empty strings.
C17_Witness ==
    /\ lastOp = "OnSetFocus"
    /\ svc.currentFocusWindow_ # NullWindow
    /\ Len(calls) = 1
    /\ <<calls[1].s1, calls[1].s2>> = <<"", "">>
    /\ hr = S_OK

FailedStart == [fn |-> "WitnessdStartSession", ok |-> FALSE]

\* C18: when WitnessdStartSession fails in ActivateEx, ActivateEx still
\* returns S_OK with the service activated, and every later key callback of
\* the enabled service is forwarded as ever: the complete service calls
\* WritePipe, and OnKeyDown calls WitnessdOnKeyDown.
C18_FailedStartStillForwards ==
    /\ (lastOp = "ActivateEx" /\ calls # <<>> /\ ~calls[1].ok) =>
           hr = S_OK /\ svc.isActivated_
    /\ (lastOp \in KeyOps /\ svc.isActivated_ /\ svc.isEnabled_
          /\ lastSession = FailedStart) =>
           /\ build = Complete => pipeOps # <<>>
           /\ lastOp = "OnKeyDown" =>
                  calls # <<>> /\ calls[1].fn = "WitnessdOnKeyDown"

\* After an activation whose StartSession failed, a key went down: its frame
\* was written to the pipe and the daemon was called.
C18_Witness ==
    /\ build = Complete
    /\ lastOp = "OnKeyDown"
    /\ svc.isActivated_
    /\ lastSession = FailedStart
    /\ Count(pipeOps, "WriteFile") = 1
    /\ calls # <<>>

\* C19 (as the spec states it): once Deactivate has returned the pipe handle
\* is closed, whatever it was before.
C19_PipeClosedAfterDeactivate ==
    lastOp = "Deactivate" => ~g_hPipe

----------------------------------------------------------------------------
(* Blocking runs: ActivateEx and Deactivate call WitnessdStartSession and   *)
(* WitnessdEndSession on the host's thread and wait for them to return.     *)
(* The daemon may reply or not; the thread goes on once it has.             *)

HostThread == "host"

NoPending == [in |-> <<>>, reply |-> <<>>]

InitStall ==
    /\ build \in Builds
    /\ Constructed
    /\ CodecIdle
    /\ ScenarioIdle
    /\ pc = [t \in {HostThread} |-> "idle"]
    /\ local = [t \in {HostThread} |-> NoPending]
    /\ told = NoTarget
    /\ received = NoReceived

\* ActivateEx and Deactivate of the loaded service.
Activation(in) ==
    IF build = Complete THEN ActivateEx(svc, daemon, in)
    ELSE BasicActivateEx(svc, daemon, in)

Deactivation(endOk) ==
    IF build = Complete THEN Deactivate(svc, daemon, endOk)
    ELSE BasicDeactivate(svc, daemon, endOk)

\* What ActivateEx meets before WitnessdStartSession has replied.
StallActivateInputs ==
    {a \in ActivateInputs : a.startOk \/ a.keyRes # "ok" \/ a.tmRes # "ok"}

\* The one key of a blocking run: 'A' translated to 'a'.
StallKeyInputs ==
    {k \in KeyInputs : k.key = KeyA /\ k.tr = Translation(TRUE, 1, 97)}

\* The host calls ActivateEx: it returns at once if it has no daemon call to
\* make, else the thread is inside WitnessdStartSession.
StallActivate ==
    /\ pc[HostThread] = "idle"
    /\ lastOp = Idle
    /\ \E in \in StallActivateInputs :
           IF Activation(in).calls = <<>>
           THEN /\ NoKeyReturns("ActivateEx", Activation(in))
                /\ UNCHANGED <<pc, local>>
           ELSE /\ pc' = [pc EXCEPT ![HostThread] = "WitnessdStartSession"]
                /\ local' = [local EXCEPT ![HostThread] =
                                 [in |-> <<in>>, reply |-> <<>>]]
                /\ UNCHANGED seqVars
    /\ UNCHANGED <<codecVars, dll, scenVars, told, received>>

\* The host calls Deactivate: the same, with WitnessdEndSession.
StallDeactivate ==
    /\ pc[HostThread] = "idle"
    /\ lastOp = Idle
    /\ IF Deactivation(TRUE).calls = <<>>
       THEN /\ NoKeyReturns("Deactivate", Deactivation(TRUE))
            /\ UNCHANGED <<pc, local>>
       ELSE /\ pc' = [pc EXCEPT ![HostThread] = "WitnessdEndSession"]
            /\ local' = [local EXCEPT ![HostThread] = NoPending]
            /\ UNCHANGED seqVars
    /\ UNCHANGED <<codecVars, dll, scenVars, told, received>>

\* The daemon's function returns, with success or failure.
DaemonReplies ==
    /\ pc[HostThread] # "idle"
    /\ local[HostThread].reply = <<>>
    /\ \E ok \in BOOLEAN :
           local' = [local EXCEPT ![HostThread].reply = <<ok>>]
    /\ UNCHANGED <<seqVars, codecVars, dll, scenVars, pc, told, received>>

\* WitnessdStartSession has returned: ActivateEx goes on to its end.
StallActivateReturns ==
    /\ pc[HostThread] = "WitnessdStartSession"
    /\ local[HostThread].reply # <<>>
    /\ NoKeyReturns("ActivateEx",
                    Activation([local[HostThread].in[1] EXCEPT
                                    !.startOk = local[HostThread].reply[1]]))
    /\ pc' = [pc EXCEPT ![HostThread] = "idle"]
    /\ local' = [local EXCEPT ![HostThread] = NoPending]
    /\ UNCHANGED <<codecVars, dll, scenVars, told, received>>

\* WitnessdEndSession has returned: Deactivate goes on to its end.
StallDeactivateReturns ==
    /\ pc[HostThread] = "WitnessdEndSession"
    /\ local[HostThread].reply # <<>>
    /\ NoKeyReturns("Deactivate", Deactivation(local[HostThread].reply[1]))
    /\ pc' = [pc EXCEPT ![HostThread] = "idle"]
    /\ local' = [local EXCEPT ![HostThread] = NoPending]
    /\ UNCHANGED <<codecVars, dll, scenVars, told, received>>

\* The host delivers a key on its thread, which must be out of ActivateEx
\* and Deactivate for that.
StallKeyDown ==
    /\ pc[HostThread] = "idle"
    /\ \E in \in StallKeyInputs :
           KeyReturns("OnKeyDown",
                      IF build = Complete THEN OnKeyDown(svc, daemon, g_hPipe, in)
                      ELSE BasicOnKeyDown(svc, daemon, g_hPipe, in))
    /\ UNCHANGED <<codecVars, dll, scenVars, concVars>>

StallContinue == Continue /\ UNCHANGED <<codecVars, dll, scenVars, concVars>>

NextStall ==
    \/ StallActivate
    \/ StallDeactivate
    \/ DaemonReplies
    \/ StallActivateReturns
    \/ StallDeactivateReturns
    \/ StallKeyDown
    \/ StallContinue

\* The thread is scheduled: a callback whose daemon call has returned goes on
\* and returns. Nothing obliges the daemon to reply.
SpecStall ==
    /\ InitStall
    /\ [][NextStall]_vars
    /\ WF_vars(StallActivateReturns)
    /\ WF_vars(StallDeactivateReturns)

\* C20 (as the spec states it): whenever the host's thread is inside
\* ActivateEx or Deactivate, waiting for WitnessdStartSession or
\* WitnessdEndSession, the callback eventually returns to the host (which can
\* then deliver keys), whether the daemon replies or not.
C20_CallbacksReturn ==
    [](pc[HostThread] # "idle" => <>(pc[HostThread] = "idle"))

----------------------------------------------------------------------------
(* The key path and the channel; EndSession                                 *)

\* A WriteFile among the pipe operations ops failed.
WriteFailed(ops) ==
    \E i \in 1..Len(ops) : ops[i].op = "WriteFile" /\ ~ops[i].ok

\* C21: OnKeyDown and OnKeyUp return S_OK whatever the channel did (pipe
\* already open, connect failed, write failed), and a channel failure changes
\* nothing but the pipe handle, which it leaves closed: no field of the
\* service, nothing of the daemon's session, and OnKeyDown's daemon calls are
\* made all the same.
C21_ChannelErrorsNotSurfaced ==
    [][lastOp' \in KeyOps =>
          /\ hr' = S_OK
          /\ svc' = svc
          /\ daemon' = daemon
          /\ lastSession' = lastSession
          /\ (ConnectFailed(pipeOps') \/ WriteFailed(pipeOps')) => ~g_hPipe'
          /\ (lastOp' = "OnKeyDown" /\ svc.isEnabled_) =>
                 calls' # <<>> /\ calls'[1].fn = "WitnessdOnKeyDown"
      ]_vars

\* A key went up on an activated service and the write of its frame failed:
\* the pipe is closed and the callback returned S_OK.
C21_Witness ==
    /\ lastOp = "OnKeyUp"
    /\ svc.isActivated_
    /\ WriteFailed(pipeOps)
    /\ ~g_hPipe
    /\ hr = S_OK

OpenedSession == [fn |-> "WitnessdStartSession", ok |-> TRUE]

\* C25 (as the spec states it): every WitnessdEndSession call is made with a
\* session open, that is with a successful WitnessdStartSession as the last
\* session-control call before it.
C25_EndOnlyWhenOpen ==
    [][\A i \in 1..Len(calls') :
           calls'[i].fn = "WitnessdEndSession" =>
               i = 1 /\ lastSession = OpenedSession]_vars

\* C26: when WitnessdEndSession returns no evidence, Deactivate still runs to
\* its end: it returns S_OK and leaves the service not activated, the
\* keystroke, thread-manager and text-edit sinks unadvised, the context and
\* document manager released, and threadMgr_ released and null.
C26_FailedEndStillDeactivates ==
    (lastOp = "Deactivate" /\ calls # <<>> /\ ~calls[1].ok) =>
        /\ calls[1].fn = "WitnessdEndSession"
        /\ hr = S_OK
        /\ ~svc.isActivated_
        /\ ~svc.keystrokeMgr_
        /\ ~svc.threadMgrEventSinkCookie_
        /\ ~svc.textEditSinkCookie_
        /\ ~svc.currentContext_
        /\ svc.currentDocMgr_ = 0
        /\ ~svc.threadMgr_
        /\ svc.clientId_ = 0

\* Deactivate returned after a WitnessdEndSession that failed on a session
\* that was open.
C26_Witness ==
    /\ lastOp = "Deactivate"
    /\ calls # <<>>
    /\ ~calls[1].ok
    /\ lastSession = [fn |-> "WitnessdEndSession", ok |-> FALSE]
    /\ ~svc.isActivated_
    /\ hr = S_OK

\* C28: a key event sink callback makes at most one CreateFileW call and at
\* most one WriteFile call before it returns, whatever the pipe's state and
\* whatever the two calls answer.
C28_OneConnectOneWrite ==
    lastOp \in KeySinkOps =>
        /\ Count(pipeOps, "CreateFileW") <= 1
        /\ Count(pipeOps, "WriteFile") <= 1
        /\ Count(pipeOps, "CloseHandle") <= 1

\* A key went down with the pipe closed: one connect, which succeeded, one
\* write, which failed, and the handle closed again.
C28_Witness ==
    /\ lastOp = "OnKeyDown"
    /\ Count(pipeOps, "CreateFileW") = 1
    /\ Count(pipeOps, "WriteFile") = 1
    /\ WriteFailed(pipeOps)
    /\ ~g_hPipe

\* C29: CreateFileW is called only by OnKeyDown and OnKeyUp, only when the
\* pipe handle is closed at the callback's entry, and as the callback's first
\* pipe operation; ActivateEx, Deactivate, both OnSetFocus callbacks and
\* SetEnabled do nothing with the pipe and leave the handle as it is.
C29_LazyConnect ==
    [][/\ Count(pipeOps', "CreateFileW") > 0 =>
              /\ lastOp' \in KeyOps
              /\ ~g_hPipe
              /\ pipeOps'[1].op = "CreateFileW"
       /\ lastOp' \notin KeyOps => pipeOps' = <<>> /\ g_hPipe' = g_hPipe
      ]_vars

\* The first key after a failed write: the pipe was closed, the callback
\* connected and wrote.
C29_Witness ==
    /\ lastOp \in KeyOps
    /\ lastSend = [end |-> "sent", afterWriteFailure |-> TRUE]
    /\ pipeOps # <<>>
    /\ pipeOps[1] = PipeOp("CreateFileW", TRUE, <<>>)
    /\ g_hPipe

\* C30: while the complete service is enabled and the pipe is open, OnKeyDown
\* and OnKeyUp each hand WriteFile exactly one frame, of 17 bytes, whose last
\* byte is 1 for OnKeyDown and 0 for OnKeyUp, and connect nothing; OnKeyUp
\* makes no daemon call at all.
C30_OneFramePerKey ==
    [][(build = Complete /\ lastOp' \in KeyOps /\ svc.isEnabled_ /\ g_hPipe) =>
          /\ Count(pipeOps', "WriteFile") = 1
          /\ Count(pipeOps', "CreateFileW") = 0
          /\ pipeOps'[1].op = "WriteFile"
          /\ Len(pipeOps'[1].frame) = 17
          /\ pipeOps'[1].frame[17] = (IF lastOp' = "OnKeyDown" THEN 1 ELSE 0)
          /\ lastOp' = "OnKeyUp" => calls' = <<>>
      ]_vars

\* A key went up with the pipe open: one frame was written, ending in 0.
C30_Witness ==
    /\ build = Complete
    /\ lastOp = "OnKeyUp"
    /\ svc.isEnabled_
    /\ g_hPipe
    /\ Len(pipeOps) = 1
    /\ pipeOps[1].op = "WriteFile"
    /\ pipeOps[1].ok
    /\ pipeOps[1].frame[17] = 0
    /\ calls = <<>>

----------------------------------------------------------------------------
(* Racing runs: two host threads each call ActivateEx or Deactivate of the  *)
(* complete service once, statement by statement. No statement of either    *)
(* takes a lock. trace lists the calls made on the thread manager and the   *)
(* daemon, in order.                                                        *)

RaceThreads == {"T1", "T2"}

InFlight == {"in WitnessdStartSession", "in WitnessdEndSession"}

NoRace == [op |-> "none", target |-> NoTarget]

\* The foreground window of a racing run, resolved.
RaceFocus == [hwnd |-> "H1", titleOk |-> TRUE, pathOk |-> TRUE]

InitRace ==
    /\ build = Complete
    /\ \/ svc = ServiceInit /\ daemon = DaemonInit /\ lastSession = NoCall
       \/ /\ svc = ActivatedOnH1.svc
          /\ daemon = ActivatedOnH1.daemon
          /\ lastSession = LastOf(SessionCalls(ActivatedOnH1.calls))
    /\ g_hPipe = FALSE
    /\ lastOp = Idle
    /\ hr = S_OK
    /\ calls = <<>>
    /\ pipeOps = <<>>
    /\ eaten = <<>>
    /\ lastSend = NoSend
    /\ CodecIdle
    /\ dll = Serving
    /\ ScenarioIdle
    /\ pc = [t \in RaceThreads |-> "idle"]
    /\ local = [t \in RaceThreads |-> NoRace]
    /\ told = NoTarget
    /\ received = NoReceived

raceRest == <<build, g_hPipe, lastOp, hr, calls, pipeOps, eaten, lastSession,
              lastSend, codecVars, dll, step, told, received>>

\* The host calls ActivateEx or Deactivate on thread t.
RaceCall(t) ==
    /\ pc[t] = "idle"
    /\ \E op \in {"ActivateEx", "Deactivate"} :
           /\ local' = [local EXCEPT ![t] = [op |-> op, target |-> NoTarget]]
           /\ Goto(t, op)
    /\ UNCHANGED <<svc, daemon, trace, raceRest>>

\* ActivateEx: if (isActivated_) return S_OK;
RaceActivateTest(t) ==
    /\ pc[t] = "ActivateEx"
    /\ Goto(t, IF svc.isActivated_ THEN "done" ELSE "AddRef")
    /\ UNCHANGED <<svc, daemon, trace, local, raceRest>>

\* ActivateEx: threadMgr_ = pThreadMgr; threadMgr_->AddRef(); clientId_ = ...
RaceAddRef(t) ==
    /\ pc[t] = "AddRef"
    /\ svc.tmRefs < MaxRefs
    /\ svc' = [svc EXCEPT !.threadMgr_ = TRUE, !.tmRefs = @ + 1, !.clientId_ = 1]
    /\ trace' = Append(trace, "AddRef")
    /\ Goto(t, "SetupSinks")
    /\ UNCHANGED <<daemon, local, raceRest>>

\* ActivateEx: SetupSinks(); on failure Deactivate() is called and its
\* result replaced by the failure.
RaceSetupSinks(t) ==
    /\ pc[t] = "SetupSinks"
    /\ \E keyRes \in SinkResults, tmRes \in SinkResults :
           LET su == SetupSinks(svc, keyRes, tmRes)
           IN /\ keyRes = "failed" => tmRes = "ok"
              /\ svc' = su.svc
              /\ trace' = trace
                     \o (IF keyRes = "ok" THEN <<"AdviseKeyEventSink">> ELSE <<>>)
                     \o (IF keyRes = "ok" /\ tmRes = "ok"
                         THEN <<"AdviseSink">> ELSE <<>>)
              /\ Goto(t, IF su.hr = S_OK THEN "UpdateFocusInfo" ELSE "Deactivate")
    /\ UNCHANGED <<daemon, local, raceRest>>

\* ActivateEx: UpdateFocusInfo(); appId and docId are made.
RaceUpdateFocus(t) ==
    /\ pc[t] = "UpdateFocusInfo"
    /\ svc' = UpdateFocusInfo(svc, RaceFocus)
    /\ local' = [local EXCEPT ![t].target = SessionTarget(svc')]
    /\ Goto(t, "WitnessdStartSession")
    /\ UNCHANGED <<daemon, trace, raceRest>>

\* ActivateEx: WitnessdStartSession is called.
RaceStartBegins(t) ==
    /\ pc[t] = "WitnessdStartSession"
    /\ trace' = Append(trace, "WitnessdStartSession")
    /\ Goto(t, "in WitnessdStartSession")
    /\ UNCHANGED <<svc, daemon, local, raceRest>>

\* WitnessdStartSession returns; isActivated_ = true; return S_OK;
RaceStartReturns(t) ==
    /\ pc[t] = "in WitnessdStartSession"
    /\ \E ok \in BOOLEAN :
           daemon' = WitnessdStartSession(daemon, local[t].target[1],
                                          local[t].target[2], ok).daemon
    /\ svc' = [svc EXCEPT !.isActivated_ = TRUE]
    /\ Goto(t, "done")
    /\ UNCHANGED <<trace, local, raceRest>>

\* Deactivate: if (!isActivated_) return S_OK;
RaceDeactivateTest(t) ==
    /\ pc[t] = "Deactivate"
    /\ Goto(t, IF ~svc.isActivated_ THEN "done" ELSE "WitnessdHasActiveSession")
    /\ UNCHANGED <<svc, daemon, trace, local, raceRest>>

\* Deactivate: if (WitnessdHasActiveSession()) WitnessdEndSession is called.
RaceEndBegins(t) ==
    /\ pc[t] = "WitnessdHasActiveSession"
    /\ IF WitnessdHasActiveSession(daemon)
       THEN /\ trace' = Append(trace, "WitnessdEndSession")
            /\ Goto(t, "in WitnessdEndSession")
       ELSE /\ trace' = trace
            /\ Goto(t, "CleanupSinks")
    /\ UNCHANGED <<svc, daemon, local, raceRest>>

\* WitnessdEndSession returns.
RaceEndReturns(t) ==
    /\ pc[t] = "in WitnessdEndSession"
    /\ \E ok \in BOOLEAN : daemon' = WitnessdEndSession(daemon, ok).daemon
    /\ Goto(t, "CleanupSinks")
    /\ UNCHANGED <<svc, trace, local, raceRest>>

\* Deactivate from CleanupSinks() to its return.
Teardown(s) ==
    LET s1 == CleanupSinks(s)
        s2 == IF s1.threadMgr_
              THEN [s1 EXCEPT !.threadMgr_ = FALSE, !.tmRefs = @ - 1]
              ELSE s1
    IN [s2 EXCEPT !.clientId_ = 0, !.isActivated_ = FALSE]

RaceTeardown(t) ==
    /\ pc[t] = "CleanupSinks"
    /\ svc' = Teardown(svc)
    /\ Goto(t, "done")
    /\ UNCHANGED <<daemon, trace, local, raceRest>>

NextRace ==
    \/ \E t \in RaceThreads : RaceCall(t)
    \/ \E t \in RaceThreads : RaceActivateTest(t)
    \/ \E t \in RaceThreads : RaceAddRef(t)
    \/ \E t \in RaceThreads : RaceSetupSinks(t)
    \/ \E t \in RaceThreads : RaceUpdateFocus(t)
    \/ \E t \in RaceThreads : RaceStartBegins(t)
    \/ \E t \in RaceThreads : RaceStartReturns(t)
    \/ \E t \in RaceThreads : RaceDeactivateTest(t)
    \/ \E t \in RaceThreads : RaceEndBegins(t)
    \/ \E t \in RaceThreads : RaceEndReturns(t)
    \/ \E t \in RaceThreads : RaceTeardown(t)

SpecRace == InitRace /\ [][NextRace]_vars

\* How many of the calls listed in tr are `what`.
Made(tr, what) == Cardinality({i \in 1..Len(tr) : tr[i] = what})

\* C22 (as the spec states it): at no moment are two session-control calls
\* of the one service in flight, each on its thread.
C22_SingleFlight ==
    Cardinality({t \in RaceThreads : pc[t] \in InFlight}) <= 1

\* C24 (as the spec states it): when both threads have called ActivateEx on
\* a service that was not activated and both calls have returned, one
\* WitnessdStartSession call was made, one reference was taken on the thread
\* manager and each sink was advised once.
C24_OneActivationOfTwo ==
    (/\ \A t \in RaceThreads : local[t].op = "ActivateEx" /\ pc[t] = "done"
     /\ trace # <<>>) =>
        /\ Made(trace, "WitnessdStartSession") = 1
        /\ Made(trace, "AddRef") = 1
        /\ Made(trace, "AdviseKeyEventSink") = 1
        /\ Made(trace, "AdviseSink") = 1

----------------------------------------------------------------------------
(* Racing writes: two host threads each deliver one OnKeyUp to the enabled  *)
(* complete service, and WritePipe runs statement by statement on the       *)
(* shared g_hPipe. trace lists the calls made on the pipe, in order, each   *)
(* with the thread that made it; the pipe open at the start is listed as    *)
(* opened by "init".                                                        *)

PipeThreads == {"K1", "K2"}

PipeCall(t, op, ok) == [t |-> t, op |-> op, ok |-> ok]

InitPipeRace ==
    /\ build = Complete
    /\ svc = ActivatedOnH1.svc
    /\ daemon = ActivatedOnH1.daemon
    /\ lastSession = LastOf(SessionCalls(ActivatedOnH1.calls))
    /\ g_hPipe \in BOOLEAN
    /\ lastOp = Idle
    /\ hr = S_OK
    /\ calls = <<>>
    /\ pipeOps = <<>>
    /\ eaten = <<>>
    /\ lastSend = NoSend
    /\ CodecIdle
    /\ dll = Serving
    /\ step = 0
    /\ trace = IF g_hPipe THEN <<PipeCall("init", "CreateFileW", TRUE)>> ELSE <<>>
    /\ pc = [t \in PipeThreads |-> "idle"]
    /\ local = [t \in PipeThreads |-> NoLocal]
    /\ told = NoTarget
    /\ received = NoReceived

pipeRest == <<build, svc, daemon, lastOp, hr, calls, pipeOps, eaten,
              lastSession, lastSend, codecVars, dll, step, local, told, received>>

RECURSIVE LastHandleCall(_, _)
\* The last CreateFileW that succeeded or CloseHandle among the first k calls
\* of tr: the call that decided whether the handle g_hPipe holds is open.
LastHandleCall(tr, k) ==
    IF k = 0 THEN PipeCall("none", "CloseHandle", TRUE)
    ELSE IF tr[k].op = "CloseHandle" \/ (tr[k].op = "CreateFileW" /\ tr[k].ok)
         THEN tr[k]
         ELSE LastHandleCall(tr, k - 1)

HandleOpen(tr) == LastHandleCall(tr, Len(tr)).op = "CreateFileW"

\* OnKeyUp to WritePipe's first statement: if (g_hPipe == INVALID_HANDLE_VALUE)
PipeEnter(t) ==
    /\ pc[t] = "idle"
    /\ svc.isEnabled_
    /\ Goto(t, IF ~g_hPipe THEN "ConnectPipe" ELSE "WriteFile")
    /\ UNCHANGED <<g_hPipe, trace, pipeRest>>

\* ConnectPipe, then WritePipe's second test of g_hPipe.
PipeConnect(t) ==
    /\ pc[t] = "ConnectPipe"
    /\ IF g_hPipe
       THEN /\ UNCHANGED <<g_hPipe, trace>>
            /\ Goto(t, "WriteFile")
       ELSE \E created \in BOOLEAN :
                /\ g_hPipe' = created
                /\ trace' = Append(trace, PipeCall(t, "CreateFileW", created))
                /\ Goto(t, IF created THEN "WriteFile" ELSE "done")
    /\ UNCHANGED pipeRest

\* WriteFile(g_hPipe, ...): on whatever g_hPipe holds at this moment; it can
\* succeed on an open handle only.
PipeWrite(t) ==
    /\ pc[t] = "WriteFile"
    /\ \E written \in BOOLEAN :
           /\ written => g_hPipe /\ HandleOpen(trace)
           /\ trace' = Append(trace, PipeCall(t, "WriteFile", written))
           /\ Goto(t, IF written THEN "done" ELSE "DisconnectPipe")
    /\ UNCHANGED <<g_hPipe, pipeRest>>

\* DisconnectPipe: if (g_hPipe != INVALID_HANDLE_VALUE) CloseHandle(g_hPipe);
PipeClose(t) ==
    /\ pc[t] = "DisconnectPipe"
    /\ IF g_hPipe
       THEN /\ trace' = Append(trace, PipeCall(t, "CloseHandle", HandleOpen(trace)))
            /\ Goto(t, "g_hPipe = INVALID_HANDLE_VALUE")
       ELSE /\ trace' = trace
            /\ Goto(t, "done")
    /\ UNCHANGED <<g_hPipe, pipeRest>>

\* DisconnectPipe: g_hPipe = INVALID_HANDLE_VALUE; OnKeyUp returns.
PipeReset(t) ==
    /\ pc[t] = "g_hPipe = INVALID_HANDLE_VALUE"
    /\ g_hPipe' = FALSE
    /\ Goto(t, "done")
    /\ UNCHANGED <<trace, pipeRest>>

NextPipeRace ==
    \/ \E t \in PipeThreads : PipeEnter(t)
    \/ \E t \in PipeThreads : PipeConnect(t)
    \/ \E t \in PipeThreads : PipeWrite(t)
    \/ \E t \in PipeThreads : PipeClose(t)
    \/ \E t \in PipeThreads : PipeReset(t)

SpecPipeRace == InitPipeRace /\ [][NextPipeRace]_vars

\* C23 (as the spec states it): no WriteFile is made on a handle that the
\* other thread's callback has closed after its own failed write.
C23_NoWriteOnClosedHandle ==
    \A k \in 1..Len(trace) :
        trace[k].op = "WriteFile" =>
            LET h == LastHandleCall(trace, k - 1)
            IN ~(h.op = "CloseHandle" /\ h.t \in PipeThreads /\ h.t # trace[k].t)

----------------------------------------------------------------------------
(* Order of frames: the host delivers up to MaxKeys key transitions, one    *)
(* callback after the other, to the activated complete service; the clock   *)
(* of GetTimestampNanos advances between them. trace lists the transitions  *)
(* delivered, received the frames the pipe took, both in order.             *)

MaxKeys == 3

OrderTranslations == {Translation(TRUE, 1, 97), Translation(TRUE, 1, 8)}

InitOrder ==
    /\ build = Complete
    /\ svc = ActivatedOnH1.svc
    /\ daemon = ActivatedOnH1.daemon
    /\ lastSession = LastOf(SessionCalls(ActivatedOnH1.calls))
    /\ g_hPipe \in BOOLEAN
    /\ lastOp = Idle
    /\ hr = S_OK
    /\ calls = <<>>
    /\ pipeOps = <<>>
    /\ eaten = <<>>
    /\ lastSend = NoSend
    /\ CodecIdle
    /\ dll = Serving
    /\ step = 0
    /\ trace = <<>>
    /\ pc = [t \in Threads |-> "idle"]
    /\ local = [t \in Threads |-> NoLocal]
    /\ told = NoTarget
    /\ received = <<>>

orderRest == <<codecVars, dll, pc, local, told>>

\* The frames of the WriteFile calls among ops that succeeded.
RECURSIVE Taken(_)
Taken(ops) ==
    IF ops = <<>> THEN <<>>
    ELSE (IF Head(ops).op = "WriteFile" /\ Head(ops).ok
          THEN <<Head(ops).frame>> ELSE <<>>) \o Taken(Tail(ops))

\* The host delivered the key transition of in to a key callback that
\* returned r.
Delivered(op, in, isDown, r) ==
    /\ step < MaxKeys
    /\ KeyReturns(op, r)
    /\ step' = step + 1
    /\ trace' = Append(trace, [ev |-> Keystroke(in, isDown),
                               failed |-> WriteFailed(r.pipe.ops)])
    /\ received' = received \o Taken(r.pipe.ops)
    /\ UNCHANGED orderRest

OrderKeyDown ==
    \E in \in [key : Keys, tr : OrderTranslations, ts : {step + 1},
               io : PipeResults] :
        Delivered("OnKeyDown", in, TRUE, OnKeyDown(svc, daemon, g_hPipe, in))

OrderKeyUp ==
    \E in \in [key : Keys, ts : {step + 1}, io : PipeResults] :
        Delivered("OnKeyUp", in, FALSE, OnKeyUp(svc, daemon, g_hPipe, in))

OrderPreservedKey ==
    /\ KeyReturns("OnPreservedKey", OnPreservedKey(svc, daemon, g_hPipe))
    /\ UNCHANGED <<scenVars, received, orderRest>>

OrderContinue == Continue /\ UNCHANGED <<scenVars, received, orderRest>>

NextOrder ==
    \/ OrderKeyDown
    \/ OrderKeyUp
    \/ OrderPreservedKey
    \/ OrderContinue

SpecOrder == InitOrder /\ [][NextOrder]_vars

RECURSIVE IsSubsequence(_, _)
\* a can be had from b by leaving elements out.
IsSubsequence(a, b) ==
    IF a = <<>> THEN TRUE
    ELSE IF b = <<>> THEN FALSE
    ELSE IF Head(a) = Head(b) THEN IsSubsequence(Tail(a), Tail(b))
    ELSE IsSubsequence(a, Tail(b))

FramesOf(tr) == [k \in 1..Len(tr) |-> EncodeKeystroke(tr[k].ev)]

\* C27: the frames the pipe took are, in order, frames of the key
\* transitions delivered, none of them twice (the transitions have different
\* timestamps), and none of a transition whose WriteFile failed.
C27_FramesInCallbackOrder ==
    /\ IsSubsequence(received, FramesOf(trace))
    /\ \A i \in 1..Len(received) : \A j \in 1..Len(received) :
           received[i] = received[j] => i = j
    /\ \A k \in 1..Len(trace) :
           trace[k].failed =>
               \A i \in 1..Len(received) : received[i] # EncodeKeystroke(trace[k].ev)

\* Three transitions, the second lost to a failed write, the first and the
\* third taken by the pipe in that order.
C27_Witness ==
    /\ Len(trace) = 3
    /\ trace[2].failed
    /\ received = <<EncodeKeystroke(trace[1].ev), EncodeKeystroke(trace[3].ev)>>

----------------------------------------------------------------------------
(* Focus callbacks of the complete service, one at a time, with what each   *)
(* of them saw: local[HostThread].in holds the answers of the Win32 queries *)
(* of the last focus callback, local[HostThread].pending the handle stored  *)
(* when it was called.                                                      *)

FocusOps == {"OnSetFocus", "OnSetFocus(BOOL)"}

Saw(focus) ==
    [t \in {HostThread} |->
        [in |-> <<focus>>, target |-> NoTarget,
         pending |-> <<svc.currentFocusWindow_>>]]

InitFocus ==
    /\ build = Complete
    /\ Constructed
    /\ CodecIdle
    /\ ScenarioIdle
    /\ pc = [t \in {HostThread} |-> "idle"]
    /\ local = [t \in {HostThread} |-> NoLocal]
    /\ told = NoTarget
    /\ received = NoReceived

focusRest == <<codecVars, dll, scenVars, pc, told, received>>

SeenActivate ==
    /\ \E in \in ActivateInputs :
           NoKeyReturns("ActivateEx", ActivateEx(svc, daemon, in))
    /\ UNCHANGED <<local, focusRest>>

SeenDeactivate ==
    /\ \E endOk \in BOOLEAN :
           NoKeyReturns("Deactivate", Deactivate(svc, daemon, endOk))
    /\ UNCHANGED <<local, focusRest>>

\* ITfThreadMgrEventSink::OnSetFocus, delivered while the sink is advised.
SeenSetFocus ==
    /\ svc.threadMgrEventSinkCookie_
    /\ \E in \in SetFocusInputs :
           /\ NoKeyReturns("OnSetFocus", OnSetFocus(svc, daemon, in))
           /\ local' = Saw(in.focus)
    /\ UNCHANGED focusRest

\* ITfKeyEventSink::OnSetFocus(BOOL), delivered while the sink is advised.
SeenForeground ==
    /\ svc.keystrokeMgr_
    /\ \E focus \in FocusInputs :
           /\ NoKeyReturns("OnSetFocus(BOOL)",
                           OnSetFocusForeground(svc, daemon, focus))
           /\ local' = Saw(focus)
    /\ UNCHANGED focusRest

SeenContinue == Continue /\ UNCHANGED <<local, focusRest>>

NextFocus ==
    \/ SeenActivate
    \/ SeenDeactivate
    \/ SeenSetFocus
    \/ SeenForeground
    \/ SeenContinue

SpecFocus == InitFocus /\ [][NextFocus]_vars

LastSeen == local[HostThread].in[1]

\* C31: when a focus callback has returned, currentFocusWindow_ is the
\* handle GetForegroundWindow gave it, whether or not the title and the
\* path of that window could be read.
C31_StoredHandleIsObserved ==
    lastOp \in FocusOps => svc.currentFocusWindow_ = LastSeen.hwnd

\* A focus callback saw H2 with neither title nor path readable, and H2 is
\* stored.
C31_Witness ==
    /\ lastOp = "OnSetFocus"
    /\ LastSeen = [hwnd |-> "H2", titleOk |-> FALSE, pathOk |-> FALSE]
    /\ local[HostThread].pending = <<"H1">>
    /\ svc.currentFocusWindow_ = "H2"

\* C34 (as the spec states it): after a focus callback that saw a window
\* other than the stored one, the stored path and title are those of the new
\* window or empty.
C34_NoStaleTarget ==
    (/\ lastOp \in FocusOps
     /\ LastSeen.hwnd \in Windows
     /\ local[HostThread].pending # <<LastSeen.hwnd>>) =>
        /\ svc.currentAppPath_ \in {PathOf(LastSeen.hwnd), EmptyW}
        /\ svc.currentWindowTitle_ \in {TitleOf(LastSeen.hwnd), EmptyW}

----------------------------------------------------------------------------
(* Teardown, failed activation and the text calls of one key                *)

\* What the service holds of the host: sinks advised and references kept.
HoldsNothing(s) ==
    /\ ~s.keystrokeMgr_
    /\ ~s.threadMgrEventSinkCookie_
    /\ ~s.textEditSinkCookie_
    /\ ~s.threadMgr_
    /\ s.tmRefs = 0
    /\ s.currentDocMgr_ = 0
    /\ ~s.currentContext_

\* C32 (as the spec states it): when Deactivate has returned, no sink is
\* advised and no reference to the thread manager, the document manager or
\* the context is held.
C32_AllReleasedAfterDeactivate ==
    lastOp = "Deactivate" => HoldsNothing(svc)

\* C33 (as the spec states it): when ActivateEx has returned a failure, no
\* StartSession was issued, the service is not activated, no sink is advised,
\* threadMgr_ is null with its reference released, and clientId_ is 0.
C33_FailedActivationUndone ==
    (lastOp = "ActivateEx" /\ hr # S_OK) =>
        /\ CallsOf(calls, "WitnessdStartSession") = <<>>
        /\ ~svc.isActivated_
        /\ ~svc.keystrokeMgr_
        /\ ~svc.threadMgrEventSinkCookie_
        /\ ~svc.threadMgr_
        /\ svc.tmRefs = 0
        /\ svc.clientId_ = 0

\* C36 (as the spec states it): one OnKeyDown issues at most one text call,
\* WitnessdOnTextCommit or WitnessdOnTextDelete.
C36_OneTextEventPerKey ==
    lastOp = "OnKeyDown" =>
        Len(SelectSeq(calls, LAMBDA c : c.fn \in TextFns)) <= 1

----------------------------------------------------------------------------
(* The module's clients: they get the class factory, make text services,    *)
(* take and give back references and locks, and ask DllCanUnloadNow. A      *)
(* client releases only what it holds.                                      *)

InitDll ==
    /\ build \in Builds
    /\ svc = ServiceInit
    /\ g_hPipe = FALSE
    /\ daemon = DaemonInit
    /\ lastOp = Idle
    /\ hr = S_OK
    /\ calls = <<>>
    /\ pipeOps = <<>>
    /\ eaten = <<>>
    /\ lastSession = NoCall
    /\ lastSend = NoSend
    /\ dll = DllInit
    /\ CodecIdle
    /\ ScenarioIdle
    /\ ConcIdle

dllRest == <<build, svc, g_hPipe, daemon, calls, pipeOps, eaten, lastSession,
             lastSend, codecVars, scenVars, concVars>>

\* A call into the module returned res and left the module as m.
DllReturns(op, m, res) ==
    /\ lastOp = Idle
    /\ lastOp' = op
    /\ hr' = res
    /\ dll' = m
    /\ UNCHANGED dllRest

ClientGetClassObject ==
    /\ dll.heldFactory < MaxHeld
    /\ \E clsidOk \in BOOLEAN, riidOk \in BOOLEAN :
           LET r == DllGetClassObject(dll, clsidOk, riidOk)
           IN DllReturns("DllGetClassObject",
                         IF r.hr = S_OK
                         THEN [r.dll EXCEPT !.heldFactory = @ + 1] ELSE r.dll,
                         r.hr)

ClientFactoryAddRef ==
    /\ dll.heldFactory >= 1
    /\ dll.heldFactory < MaxHeld
    /\ DllReturns("AddRef", [FactoryAddRef(dll) EXCEPT !.heldFactory = @ + 1], S_OK)

ClientFactoryRelease ==
    /\ dll.heldFactory >= 1
    /\ DllReturns("Release", [FactoryRelease(dll) EXCEPT !.heldFactory = @ - 1], S_OK)

ClientCreateInstance ==
    /\ dll.heldFactory >= 1
    /\ \E i \in Objects : \E outer \in BOOLEAN, riidOk \in BOOLEAN :
           /\ dll.services[i] = 0
           /\ \A j \in Objects : j < i => dll.services[j] # 0
           /\ LET r == CreateInstance(dll, i, outer, riidOk)
              IN DllReturns("CreateInstance",
                            IF r.hr = S_OK
                            THEN [r.dll EXCEPT !.held[i] = 1] ELSE r.dll,
                            r.hr)

ClientServiceAddRef ==
    \E i \in Objects :
        /\ dll.held[i] >= 1
        /\ dll.held[i] < MaxHeld
        /\ DllReturns("AddRef", [ServiceAddRef(dll, i) EXCEPT !.held[i] = @ + 1], S_OK)

ClientServiceRelease ==
    \E i \in Objects :
        /\ dll.held[i] >= 1
        /\ DllReturns("Release", [ServiceRelease(dll, i) EXCEPT !.held[i] = @ - 1], S_OK)

ClientLockServer ==
    /\ dll.heldFactory >= 1
    /\ \E fLock \in BOOLEAN :
           /\ fLock => dll.locks < MaxLocks
           /\ ~fLock => dll.locks >= 1
           /\ DllReturns("LockServer",
                         [LockServer(dll, fLock) EXCEPT
                              !.locks = IF fLock THEN @ + 1 ELSE @ - 1],
                         S_OK)

ClientCanUnloadNow ==
    /\ lastOp = Idle
    /\ DllReturns("DllCanUnloadNow", dll, DllCanUnloadNow(dll))

ClientContinue ==
    /\ lastOp # Idle
    /\ lastOp' = Idle
    /\ hr' = S_OK
    /\ UNCHANGED <<dll, dllRest>>

NextDll ==
    \/ ClientGetClassObject
    \/ ClientFactoryAddRef
    \/ ClientFactoryRelease
    \/ ClientCreateInstance
    \/ ClientServiceAddRef
    \/ ClientServiceRelease
    \/ ClientLockServer
    \/ ClientCanUnloadNow
    \/ ClientContinue

SpecDll == InitDll /\ [][NextDll]_vars

\* The clients hold no reference and no lock.
AllGivenBack ==
    /\ dll.heldFactory = 0
    /\ \A i \in Objects : dll.held[i] = 0
    /\ dll.locks = 0

\* C38 (as the spec states it): DllCanUnloadNow answers S_OK, with
\* g_dllRefCount 0, when the clients have given back every reference and
\* every lock, and S_FALSE while a text service is alive or a lock is held.
C38_UnloadExactlyWhenUnused ==
    lastOp = "DllCanUnloadNow" =>
        /\ AllGivenBack => dll.g_dllRefCount = 0 /\ hr = S_OK
        /\ ((\E i \in Objects : dll.services[i] > 0) \/ dll.locks > 0) => hr = S_FALSE

----------------------------------------------------------------------------
(* The bytes on a connection: key callbacks one after another, as in        *)
(* SpecOrder, with frame holding the bytes the pipe has carried since it    *)
(* was last opened. g_hPipe is a synchronous handle (CreateFileW without    *)
(* FILE_FLAG_OVERLAPPED, in the default blocking mode), on which WriteFile  *)
(* succeeds only with the whole buffer written; a WriteFile that fails may  *)
(* have passed on some of its bytes.                                        *)

\* How many bytes a failed WriteFile may have transferred.
PartialLengths == {0, 9, FrameBytes - 1}

RECURSIVE Carried(_, _, _)
\* The bytes of the connection after the pipe operations ops, of which a
\* failed WriteFile transferred k bytes; CreateFileW opens a new connection.
Carried(bytes, ops, k) ==
    IF ops = <<>> THEN bytes
    ELSE LET o == Head(ops)
             b == IF o.op = "CreateFileW" /\ o.ok THEN <<>>
                  ELSE IF o.op = "WriteFile"
                       THEN bytes \o (IF o.ok THEN o.frame ELSE SubSeq(o.frame, 1, k))
                       ELSE bytes
         IN Carried(b, Tail(ops), k)

InitStream ==
    /\ build = Complete
    /\ svc = ActivatedOnH1.svc
    /\ daemon = ActivatedOnH1.daemon
    /\ lastSession = LastOf(SessionCalls(ActivatedOnH1.calls))
    /\ g_hPipe \in BOOLEAN
    /\ lastOp = Idle
    /\ hr = S_OK
    /\ calls = <<>>
    /\ pipeOps = <<>>
    /\ eaten = <<>>
    /\ lastSend = NoSend
    /\ CodecIdle
    /\ dll = Serving
    /\ ScenarioIdle
    /\ ConcIdle

\* The host delivered the key transition of in to a key callback that
\* returned r; k bytes went out if its WriteFile failed.
Streamed(op, in, isDown, r, k) ==
    /\ step < MaxKeys
    /\ KeyReturns(op, r)
    /\ step' = step + 1
    /\ trace' = Append(trace, [ev |-> Keystroke(in, isDown),
                               failed |-> WriteFailed(r.pipe.ops)])
    /\ frame' = Carried(frame, r.pipe.ops, k)
    /\ UNCHANGED <<event, decoded, dll, concVars>>

StreamKeyDown ==
    \E in \in [key : Keys, tr : OrderTranslations, ts : {step + 1},
               io : PipeResults] : \E k \in PartialLengths :
        Streamed("OnKeyDown", in, TRUE, OnKeyDown(svc, daemon, g_hPipe, in), k)

StreamKeyUp ==
    \E in \in [key : Keys, ts : {step + 1}, io : PipeResults] :
        \E k \in PartialLengths :
            Streamed("OnKeyUp", in, FALSE, OnKeyUp(svc, daemon, g_hPipe, in), k)

StreamContinue == Continue /\ UNCHANGED <<codecVars, dll, scenVars, concVars>>

NextStream ==
    \/ StreamKeyDown
    \/ StreamKeyUp
    \/ StreamContinue

SpecStream == InitStream /\ [][NextStream]_vars

\* The i-th run of FrameBytes bytes of the connection.
Chunk(i) == SubSeq(frame, (i - 1) * FrameBytes + 1, i * FrameBytes)

\* C35: the bytes a connection has carried are whole 17-byte frames of key
\* transitions delivered, and when a part of a frame follows them the pipe
\* is closed, so that nothing is written behind the part.
C35_WholeFramesPerConnection ==
    /\ \A i \in 1..(Len(frame) \div FrameBytes) :
           \E j \in 1..Len(trace) : Chunk(i) = EncodeKeystroke(trace[j].ev)
    /\ Len(frame) % FrameBytes # 0 => ~g_hPipe

\* One whole frame, then 9 bytes of the next, whose write failed; the pipe
\* is closed.
C35_Witness ==
    /\ Len(frame) = FrameBytes + 9
    /\ Len(trace) >= 2
    /\ trace[Len(trace)].failed
    /\ ~g_hPipe

----------------------------------------------------------------------------
(* The two builds side by side: every callback is delivered to the complete *)
(* service, held in svc and daemon as elsewhere, and with the same inputs   *)
(* to the basic service, held with its daemon and the calls of its last     *)
(* callback in local[Basic]. The complete service stays enabled.            *)

Peer(r) == [b \in {Basic} |-> [svc |-> r.svc, daemon |-> r.daemon, calls |-> r.calls]]

InitPair ==
    /\ build = Complete
    /\ Constructed
    /\ CodecIdle
    /\ ScenarioIdle
    /\ pc = [b \in {Basic} |-> "idle"]
    /\ local = Peer([svc |-> ServiceInit, daemon |-> DaemonInit, calls |-> <<>>])
    /\ told = NoTarget
    /\ received = NoReceived

pairRest == <<codecVars, dll, scenVars, pc, told, received>>

\* The basic service returned r from the same callback.
PeerReturns(r) ==
    /\ r.svc.tmRefs <= MaxRefs
    /\ local' = Peer(r)
    /\ UNCHANGED pairRest

\* Both key sinks answer alike; the complete service's second sink is set up.
PairActivate ==
    \E in \in {a \in ActivateInputs : a.tmRes = "ok"} :
        /\ NoKeyReturns("ActivateEx", ActivateEx(svc, daemon, in))
        /\ PeerReturns(BasicActivateEx(local[Basic].svc, local[Basic].daemon, in))

PairDeactivate ==
    \E endOk \in BOOLEAN :
        /\ NoKeyReturns("Deactivate", Deactivate(svc, daemon, endOk))
        /\ PeerReturns(BasicDeactivate(local[Basic].svc, local[Basic].daemon, endOk))

\* Key callbacks come while the key event sink of both services is advised.
PairKeyDown ==
    \E in \in KeyInputs :
        /\ svc.keystrokeMgr_ /\ local[Basic].svc.keystrokeMgr_
        /\ KeyReturns("OnKeyDown", OnKeyDown(svc, daemon, g_hPipe, in))
        /\ PeerReturns(BasicOnKeyDown(local[Basic].svc, local[Basic].daemon, FALSE, in))

PairKeyUp ==
    \E in \in KeyUpInputs :
        /\ svc.keystrokeMgr_ /\ local[Basic].svc.keystrokeMgr_
        /\ KeyReturns("OnKeyUp", OnKeyUp(svc, daemon, g_hPipe, in))
        /\ PeerReturns(BasicOnKeyUp(local[Basic].svc, local[Basic].daemon, FALSE, in))

PairContinue == Continue /\ UNCHANGED <<local, pairRest>>

NextPair ==
    \/ PairActivate
    \/ PairDeactivate
    \/ PairKeyDown
    \/ PairKeyUp
    \/ PairContinue

SpecPair == InitPair /\ [][NextPair]_vars

\* The daemon calls cs as the two builds are compared: the session calls by
\* their names, the key and text calls with their arguments.
Compared(cs) ==
    [i \in 1..Len(cs) |->
        IF IsSessionCall(cs[i]) THEN [fn |-> cs[i].fn]
        ELSE [fn |-> cs[i].fn, s1 |-> cs[i].s1, n1 |-> cs[i].n1, n2 |-> cs[i].n2]]

\* C37 (as the spec states it): from every callback the two builds make the
\* same session, key and text calls to the daemon.
C37_BuildsMakeSameCalls ==
    lastOp \in {"ActivateEx", "Deactivate", "OnKeyDown", "OnKeyUp"} =>
        Compared(calls) = Compared(local[Basic].calls)

=============================================================================
